---- MODULE Spec2Model ----
(***************************************************************************)
(* Model of the concurrent log-delivery pipeline of actforgood/xlog:       *)
(* AsyncLogger (bounded intake channel, worker goroutines, Close) and the  *)
(* BufferedWriter it may write to.                                         *)
(***************************************************************************)
EXTENDS Integers, Sequences, FiniteSets, TLC

\* ---------------------------------------------------------------- bounds
NumProducers == 2
MaxLogs == 2
NumClosers == 2
MaxWorkers == 2
MaxChanSize == 2
BufSize == 2
NumWriters == 2
MaxWrites == 3
NumLoggers == 2
MaxMultiCalls == 3
MaxKeyValues == 3

\* ------------------------------------------------------ program constants
LevelNone == 0
LevelDebug == 10
LevelInfo == 20
LevelWarning == 30
LevelError == 40
LevelCritical == 50

Producers == 1..NumProducers
Closers == 1..NumClosers
Workers == 1..MaxWorkers
Records == 1..MaxLogs
Writers == 1..NumWriters
Chunks == 1..MaxWrites
Loggers == 1..NumLoggers
MultiCalls == 1..MaxMultiCalls

\* the levels of the six logging methods of a Logger
MethodLevels == {LevelNone, LevelDebug, LevelInfo, LevelWarning, LevelError,
                 LevelCritical}

\* the logging methods the k-th modelled call on a MultiLogger chooses from
\* (the six methods are independent of each other; over three calls every
\* one of them is called)
MethodLevelsAt(k) ==
    CASE k % 3 = 1 -> {LevelNone, LevelDebug}
      [] k % 3 = 2 -> {LevelInfo, LevelWarning}
      [] OTHER -> {LevelError, LevelCritical}

\* levels a modelled log call is issued with: the highest one below the
\* default [MinLevel, MaxLevel] range of NewCommonOpts, and the range's
\* lower end.
CallLevels == {LevelInfo, LevelWarning}

VARIABLES
    \* --- configuration, fixed by the constructors
    chanSize,      \* cap(entriesChan)
    workersNo,     \* AsyncLogger.workersNo
    writerKind,    \* "plain": any io.Writer, "buffered": *BufferedWriter
    bufSize,       \* BufferedWriter.bufSize
    flushInterval, \* BufferedWriter.flushInterval
    timerOn,       \* the flushAsync goroutine was started
    minLevel,      \* opts.MinLevel()
    maxLevel,      \* opts.MaxLevel()
    \* --- AsyncLogger state
    entriesChan,   \* records buffered in the channel, oldest first
    chanClosed,    \* close(entriesChan) has run
    closed,        \* AsyncLogger.closed
    closeMu,       \* holder of closeMu's write lock (NoOwner when free)
    wgCount,       \* AsyncLogger.wg counter
    \* --- goroutines
    ppc, prec,     \* producers: position, record of the current log call
    nlogs,         \* number of log calls started so far
    wpc, wcur,     \* workers: position, record being processed
    cpc,           \* Close callers: position
    aborted,       \* the process died of an unrecovered panic
    \* --- BufferedWriter state
    bwStopped,     \* BufferedWriter.stopped
    stopMu,        \* holder of stopMu's write lock
    mu,            \* holder of mu
    bwBuf,         \* bytes held by bufWriter (the accumulator)
    bwErr,         \* bufWriter holds an error (bufio.Writer's sticky err)
    stopChClosed,  \* close(stopFlushCh) has run
    bwWg,          \* BufferedWriter.wg counter
    tpc,           \* timer goroutine (flushAsync): position
    \* --- goroutines calling BufferedWriter.Write themselves
    dpc, dcur,     \* position, chunk passed to the current Write call
    dcalled,       \* chunks Write has been called with
    dlog,          \* completed Write calls, with what they returned
    dlvl,          \* the level of each SyncLogger call, by chunk
    \* --- syncWriter and the goroutines calling its Write
    swMu,          \* holder of syncWriter.mu
    swpc, swcur,   \* position, chunk passed to the current Write call
    swn,           \* bytes the wrapped sink has taken in the current call
    swCalled,      \* chunks Write has been called with
    swOut,         \* bytes in the sink wrapped by the syncWriter
    swLog,         \* completed Write calls, with what they returned
    \* --- MultiLogger and the goroutines calling it
    mlpc,          \* index of the constituent the caller's loop is at (0: idle)
    mlop,          \* the call in progress: its number
    mlErrs,        \* mErr of the Close call in progress
    mlCallLog,     \* the calls made on the MultiLogger, by number
    mlEvents,      \* what each constituent received, by MultiLogger call
    mlRets,        \* what each completed Close call returned, by call
    \* --- the world outside and the observable history
    sinkOut,       \* bytes that reached the final sink
    sinkFailed,    \* the sink wrapped by the BufferedWriter has failed
    enqOrder,      \* records in the order their send completed
    fmtOrder,      \* records in the order the Formatter was called
    wrOrder,       \* records in the order the writer accepted their bytes
    fmtErrs,       \* records for which the Formatter returned an error
    errHandled,    \* records in the order ErrHandler was called
    callLvl,       \* the level of each log call, by record
    dropped,       \* records of log calls that found the logger closed
    panicked,      \* records whose send hit the closed channel
    closeReturned, \* Close callers that have returned
    chanCloses,    \* number of close(entriesChan) executions
    wgWaits,       \* number of completed logger.wg.Wait() calls
    stopCalls,     \* number of bw.Stop() calls made by Close
    stopChCloses,  \* number of close(stopFlushCh) executions
    finalFlushes,  \* number of flush() calls made by Stop
    \* --- CommonOpts.WithDefaultKeyValues, as pushLog and log call it
    kvOpts,        \* the options' SourceKey, Source() result, AdditionalKeyValues
    kvCall,        \* the latest log call: its level and caller key-values
    kvRet          \* what that call handed to the queue, or that it panicked

cfgVars == <<chanSize, workersNo, writerKind, bufSize, flushInterval, timerOn,
             minLevel, maxLevel>>
logVars == <<entriesChan, chanClosed, closed, closeMu, wgCount>>
procVars == <<ppc, prec, nlogs, wpc, wcur, cpc, aborted>>
bwVars == <<bwStopped, stopMu, mu, bwBuf, bwErr, stopChClosed, bwWg, tpc>>
directVars == <<dpc, dcur, dcalled, dlog, dlvl>>
swVars == <<swMu, swpc, swcur, swn, swCalled, swOut, swLog>>
mlVars == <<mlpc, mlop, mlErrs, mlCallLog, mlEvents, mlRets>>
histVars == <<sinkOut, sinkFailed, enqOrder, fmtOrder, wrOrder, fmtErrs,
              errHandled, callLvl, dropped, panicked, closeReturned,
              chanCloses, wgWaits, stopCalls, stopChCloses, finalFlushes>>
kvVars == <<kvOpts, kvCall, kvRet>>
vars == <<cfgVars, logVars, procVars, bwVars, directVars, swVars, mlVars,
          histVars, kvVars>>

\* ------------------------------------------------------------- helpers
NoOwner == [k |-> "none", i |-> 0]
WorkerId(w) == [k |-> "worker", i |-> w]
CloserId(c) == [k |-> "closer", i |-> c]
TimerId == [k |-> "timer", i |-> 0]
WriterId(d) == [k |-> "writer", i |-> d]

\* the bytes the Formatter writes for record r (one Write call per record)
Payload(r) == IF r % 2 = 1 THEN <<r>> ELSE <<r, r, r>>

RECURSIVE ConcatPayloads(_)
ConcatPayloads(seq) ==
    IF seq = <<>> THEN <<>>
    ELSE Payload(Head(seq)) \o ConcatPayloads(Tail(seq))

Range(seq) == {seq[i] : i \in 1..Len(seq)}

IsPrefix(s, t) == Len(s) <= Len(t) /\ SubSeq(t, 1, Len(s)) = s

Count(seq, x) == Cardinality({i \in 1..Len(seq) : seq[i] = x})

Pos(seq, x) == CHOOSE i \in 1..Len(seq) : seq[i] = x

\* ------------------------------------------------- pure parts of the code
\* CommonOpts.BetweenMinMax
BetweenMinMaxExclusive(lvl) == lvl > minLevel /\ lvl < maxLevel
BetweenMinMax(lvl) == lvl >= minLevel /\ lvl <= maxLevel

\* isClosed: logger.closeMu.RLock() can be taken (no Close call holds the
\* write lock)
CanRLockAlways(owner) == TRUE
CanRLock(owner) == owner = NoOwner

\* a send on entriesChan can complete by buffering the value
ChanHasRoomOff(q, cap) == Len(q) <= cap
ChanHasRoom(q, cap) == Len(q) < cap

\* a receive from entriesChan takes the oldest buffered value
ChanRecvNewest(q) ==
    [val |-> q[Len(q)], rest |-> SubSeq(q, 1, Len(q) - 1)]
ChanRecv(q) == [val |-> Head(q), rest |-> Tail(q)]

\* `for keyVals := range logger.entriesChan` ends: channel closed and drained
RangeEndsEarly(q, isClosed) == isClosed
RangeEnds(q, isClosed) == isClosed /\ q = <<>>

\* `if err := logger.formatter(...); err != nil` selects the ErrHandler call
HandlesErrAlways(err) == TRUE
HandlesErr(err) == err

\* logger.wg.Wait() can return
WgWaitNoWait(n) == TRUE
WgWaitReturns(n) == n = 0

\* `if !logger.closed` in Close
MustCloseAlways(isClosed) == TRUE
MustClose(isClosed) == ~isClosed

\* startWorkers: `for i := 0; i < logger.workersNo; i++` starts
\* worker w of 1..MaxWorkers
StartsWorkerOffByOne(w, n) == w <= n + 1
StartsWorker(w, n) == w <= n

\* a sync.Mutex can be taken
MutexFreeAlways(owner) == TRUE
MutexFree(owner) == owner = NoOwner

\* `if bufferedWriter.flushInterval > 0` in NewBufferedWriter
StartsTimerAtZero(interval) == interval >= 0
StartsTimer(interval) == interval > 0

\* values passed to BufferedWriterWithFlushInterval
FlushIntervals == -1..1

\* ------------------------------------------ CommonOpts.WithDefaultKeyValues
\* the keys NewCommonOpts configures, the placeholder value, and the
\* level labels (a level without a label reads as the empty string)
defaultOptTimeKey == "date"
defaultOptLevelKey == "lvl"
defaultOptSourceKey == "src"
noValue == "*NoValue*"
LevelLabels(lvl) ==
    CASE lvl = LevelCritical -> "CRITICAL"
      [] lvl = LevelError -> "ERROR"
      [] lvl = LevelWarning -> "WARN"
      [] lvl = LevelInfo -> "INFO"
      [] lvl = LevelDebug -> "DEBUG"
      [] OTHER -> ""

\* what opts.Time() returns; an additional value that is a Provider, and
\* what calling it returns
TimeValue == "2022-01-01T00:00:00Z"
ProviderEntry == "<Provider>"
ProviderResult == "provided"

\* AppendNoValue: an odd-length list gets the placeholder appended
AppendNoValueAlways(keyValues) == Append(keyValues, noValue)
AppendNoValue(keyValues) ==
    IF Len(keyValues) % 2 = 1 THEN Append(keyValues, noValue) ELSE keyValues

\* the loop over opts.AdditionalKeyValues, from 0-based index i on: reading
\* index i+1 of an odd-length list is out of range and panics
RECURSIVE AdditionalLoop(_, _)
AdditionalLoop(additional, i) ==
    IF i >= Len(additional) THEN [panicked |-> FALSE, keyVals |-> <<>>]
    ELSE IF i + 1 >= Len(additional) THEN [panicked |-> TRUE, keyVals |-> <<>>]
    ELSE LET key == additional[i + 1]
             value == additional[i + 2]
             resolved == IF value = ProviderEntry THEN ProviderResult ELSE value
             rest == AdditionalLoop(additional, i + 2)
         IN  [panicked |-> rest.panicked,
              keyVals |-> <<key, resolved>> \o rest.keyVals]

WithDefaultKeyValues(opts, lvl, keyValues) ==
    LET padded == AppendNoValue(keyValues)
        timePart == <<defaultOptTimeKey, TimeValue>>
        levelPart == IF lvl # LevelNone
                     THEN <<defaultOptLevelKey, LevelLabels(lvl)>> ELSE <<>>
        sourcePart == IF opts.SourceKey # "" /\ opts.Source # ""
                      THEN <<opts.SourceKey, opts.Source>> ELSE <<>>
        additionalPart == AdditionalLoop(opts.AdditionalKeyValues, 0)
    IN  IF additionalPart.panicked
        THEN [handed |-> FALSE, panicked |-> TRUE, keyVals |-> <<>>]
        ELSE [handed |-> TRUE, panicked |-> FALSE,
              keyVals |-> timePart \o levelPart \o sourcePart
                          \o additionalPart.keyVals \o padded]

\* the options of NewCommonOpts, and the customisations drawn from
DefaultKvOpts ==
    [SourceKey |-> defaultOptSourceKey, Source |-> "main.go:10",
     AdditionalKeyValues |-> <<>>]
AdditionalChoices ==
    {<<>>, <<"app", "xlog">>, <<"app", "xlog", "ver", ProviderEntry>>,
     <<"app">>}
KvOptsChoices ==
    [SourceKey : {"", defaultOptSourceKey}, Source : {"", "main.go:10"},
     AdditionalKeyValues : AdditionalChoices]

\* caller key-values: every list of up to MaxKeyValues entries
SeqsUpTo(n) == UNION {[1..k -> {"k", "v"}] : k \in 0..n}
CallerKeyValues == SeqsUpTo(MaxKeyValues)

\* no log call made yet
KVIdle ==
    /\ kvCall = [called |-> FALSE, lvl |-> LevelNone, keyValues |-> <<>>]
    /\ kvRet = [handed |-> FALSE, panicked |-> FALSE, keyVals |-> <<>>]

\* `if !bw.stopped` in Stop
MustStopAlways(isStopped) == TRUE
MustStop(isStopped) == ~isStopped

\* the loop of bufio.Writer.Write: fill, flush when the payload does not
\* fit, write a large payload directly when the buffer is empty.
\* failAt = k: the k-th write on the wrapped sink made by this call fails
\* (0: none fails).
RECURSIVE BufioWriteLoop(_, _, _, _, _, _, _)
BufioWriteLoop(buf, p, size, nn, out, k, failAt) ==
    IF Len(p) > size - Len(buf)
    THEN IF Len(buf) = 0
         THEN IF failAt = k + 1
              THEN [buf |-> buf, out |-> out, n |-> nn, err |-> TRUE]
              ELSE BufioWriteLoop(<<>>, <<>>, size, nn + Len(p), out \o p,
                                  k + 1, failAt)
         ELSE LET n == size - Len(buf)
                  full == buf \o SubSeq(p, 1, n)
              IN IF failAt = k + 1
                 THEN [buf |-> full, out |-> out, n |-> nn + n, err |-> TRUE]
                 ELSE BufioWriteLoop(<<>>, SubSeq(p, n + 1, Len(p)), size,
                                     nn + n, out \o full, k + 1, failAt)
    ELSE [buf |-> buf \o p, out |-> out, n |-> nn + Len(p), err |-> FALSE]

\* bufio.Writer.Write as called by BufferedWriter.Write. berr: the
\* bufio.Writer already holds an error, which it returns without writing.
\* failed: a write on the wrapped sink failed during this call.
BufioWriteThrough(buf, berr, p, size, failAt) ==
    [buf |-> buf, out |-> p, n |-> Len(p), err |-> FALSE, failed |-> FALSE]
BufioWrite(buf, berr, p, size, failAt) ==
    IF berr
    THEN [buf |-> buf, out |-> <<>>, n |-> 0, err |-> TRUE, failed |-> FALSE]
    ELSE LET r == BufioWriteLoop(buf, p, size, 0, <<>>, 0, failAt)
         IN [buf |-> r.buf, out |-> r.out, n |-> r.n, err |-> r.err,
             failed |-> r.err]

\* bufio.Writer.Flush: returns the error it holds, else pushes the buffered
\* bytes and keeps them on failure
BufioFlushKeeps(buf, berr, fail) ==
    [buf |-> buf, out |-> buf, err |-> FALSE]
BufioFlush(buf, berr, fail) ==
    IF berr THEN [buf |-> buf, out |-> <<>>, err |-> TRUE]
    ELSE IF buf = <<>> THEN [buf |-> <<>>, out |-> <<>>, err |-> FALSE]
    ELSE IF fail THEN [buf |-> buf, out |-> <<>>, err |-> TRUE]
    ELSE [buf |-> <<>>, out |-> buf, err |-> FALSE]

\* body of BufferedWriter.Write under mu: stopped check, bufio write, Reset
\* on error (Reset empties the buffer and clears the held error)
BWWriteBodyIgnoresStop(buf, berr, p, size, isStopped, failAt) ==
    LET r == BufioWrite(buf, berr, p, size, failAt)
    IN [buf |-> IF r.err THEN <<>> ELSE r.buf,
        berr |-> IF r.err THEN FALSE ELSE berr,
        out |-> r.out, n |-> r.n, err |-> r.err, failed |-> r.failed]
BWWriteBodyNoReset(buf, berr, p, size, isStopped, failAt) ==
    IF isStopped
    THEN [buf |-> buf, berr |-> berr, out |-> <<>>, n |-> 0, err |-> FALSE,
          failed |-> FALSE]
    ELSE LET r == BufioWrite(buf, berr, p, size, failAt)
         IN [buf |-> r.buf, berr |-> r.err, out |-> r.out, n |-> r.n,
             err |-> r.err, failed |-> r.failed]
BWWriteBody(buf, berr, p, size, isStopped, failAt) ==
    IF isStopped
    THEN [buf |-> buf, berr |-> berr, out |-> <<>>, n |-> 0, err |-> FALSE,
          failed |-> FALSE]
    ELSE LET r == BufioWrite(buf, berr, p, size, failAt)
         IN [buf |-> IF r.err THEN <<>> ELSE r.buf,
             berr |-> IF r.err THEN FALSE ELSE berr,
             out |-> r.out, n |-> r.n, err |-> r.err, failed |-> r.failed]

\* body of BufferedWriter.flush under mu: bufio flush, Reset on error
BWFlushBodySkips(buf, berr, fail) ==
    [buf |-> buf, berr |-> berr, out |-> <<>>, err |-> FALSE]
BWFlushBody(buf, berr, fail) ==
    LET r == BufioFlush(buf, berr, fail)
    IN [buf |-> IF r.err THEN <<>> ELSE r.buf,
        berr |-> IF r.err THEN FALSE ELSE berr,
        out |-> r.out, err |-> r.err]

\* outcomes the wrapped sink can produce during one call
FailChoices == 0..2
FlushFailChoices == BOOLEAN

\* ------------------------------------------------------------------ Init
\* NewAsyncLogger (and NewBufferedWriter when the writer is buffered)
Init ==
    /\ chanSize \in 0..MaxChanSize
    /\ workersNo \in 0..MaxWorkers
    /\ writerKind \in {"plain", "buffered"}
    /\ bufSize = BufSize
    /\ flushInterval \in IF writerKind = "buffered" THEN 0..1 ELSE {0}
    /\ timerOn = (writerKind = "buffered" /\ StartsTimer(flushInterval))
    /\ minLevel = LevelWarning
    /\ maxLevel = LevelCritical
    /\ entriesChan = <<>>
    /\ chanClosed = FALSE
    /\ closed = FALSE
    /\ closeMu = NoOwner
    /\ wgCount = workersNo
    /\ ppc = [p \in Producers |-> "idle"]
    /\ prec = [p \in Producers |-> 0]
    /\ nlogs = 0
    /\ wpc = [w \in Workers |->
                 IF StartsWorker(w, workersNo) THEN "recv" ELSE "none"]
    /\ wcur = [w \in Workers |-> 0]
    /\ cpc = [c \in Closers |-> "idle"]
    /\ aborted = FALSE
    /\ bwStopped = FALSE
    /\ stopMu = NoOwner
    /\ mu = NoOwner
    /\ bwBuf = <<>>
    /\ bwErr = FALSE
    /\ stopChClosed = FALSE
    /\ bwWg = IF timerOn THEN 1 ELSE 0
    /\ tpc = IF timerOn THEN "select" ELSE "none"
    /\ dpc = [d \in Writers |-> "idle"]
    /\ dcur = [d \in Writers |-> 0]
    /\ dcalled = {}
    /\ dlog = <<>>
    /\ dlvl = {}
    /\ swMu = NoOwner
    /\ swpc = [d \in Writers |-> "idle"]
    /\ swcur = [d \in Writers |-> 0]
    /\ swn = [d \in Writers |-> 0]
    /\ swCalled = {}
    /\ swOut = <<>>
    /\ swLog = <<>>
    /\ mlpc = [p \in Producers |-> 0]
    /\ mlop = [p \in Producers |-> 0]
    /\ mlErrs = [p \in Producers |-> <<>>]
    /\ mlCallLog = <<>>
    /\ mlEvents = [i \in Loggers |-> [c \in MultiCalls |-> <<>>]]
    /\ mlRets = [c \in MultiCalls |-> <<>>]
    /\ sinkOut = <<>>
    /\ sinkFailed = FALSE
    /\ enqOrder = <<>>
    /\ fmtOrder = <<>>
    /\ wrOrder = <<>>
    /\ fmtErrs = {}
    /\ errHandled = <<>>
    /\ callLvl = <<>>
    /\ dropped = {}
    /\ panicked = {}
    /\ closeReturned = {}
    /\ chanCloses = 0
    /\ wgWaits = 0
    /\ stopCalls = 0
    /\ stopChCloses = 0
    /\ finalFlushes = 0
    /\ kvOpts = DefaultKvOpts
    /\ KVIdle

\* ------------------------------------------------------------- producers
\* an unrecovered panic ends the process: no goroutine takes another step
Running == ~aborted

\* Idle producers are interchangeable, and so are workers blocked in their
\* receive: the lowest-numbered one takes the next step.
FirstIdle(p) == \A q \in Producers : q < p => ppc[q] # "idle"
FirstRecv(w) == \A v \in Workers : v < w => wpc[v] # "recv"

\* pushLog up to the send: the level gate, WithDefaultKeyValues and
\* `if !logger.isClosed()` (RLock on closeMu, read closed, RUnlock)
PushLog(p, lvl) ==
    /\ Running
    /\ ppc[p] = "idle"
    /\ FirstIdle(p)
    /\ nlogs < MaxLogs
    /\ nlogs' = nlogs + 1
    /\ callLvl' = Append(callLvl, lvl)
    /\ IF ~BetweenMinMax(lvl)
       THEN UNCHANGED <<ppc, prec, dropped>>
       ELSE /\ CanRLock(closeMu)
            /\ IF closed
               THEN /\ dropped' = dropped \cup {nlogs + 1}
                    /\ UNCHANGED <<ppc, prec>>
               ELSE /\ ppc' = [ppc EXCEPT ![p] = "send"]
                    /\ prec' = [prec EXCEPT ![p] = nlogs + 1]
                    /\ UNCHANGED dropped
    /\ UNCHANGED <<cfgVars, logVars, wpc, wcur, cpc, aborted, bwVars,
                   directVars, swVars, mlVars, sinkOut, sinkFailed, enqOrder,
                   fmtOrder, wrOrder, fmtErrs, errHandled, panicked,
                   closeReturned, chanCloses, wgWaits, stopCalls, stopChCloses,
                   finalFlushes, kvVars>>

\* pushLog: `logger.entriesChan <- keyVals` completes into the buffer
PushLogSend(p) ==
    /\ Running
    /\ ppc[p] = "send"
    /\ ~chanClosed
    /\ ChanHasRoom(entriesChan, chanSize)
    /\ entriesChan' = Append(entriesChan, prec[p])
    /\ enqOrder' = Append(enqOrder, prec[p])
    /\ ppc' = [ppc EXCEPT ![p] = "idle"]
    /\ prec' = [prec EXCEPT ![p] = 0]
    /\ UNCHANGED <<cfgVars, chanClosed, closed, closeMu, wgCount, nlogs, wpc,
                   wcur, cpc, aborted, bwVars, directVars, swVars, mlVars,
                   sinkOut, sinkFailed, fmtOrder, wrOrder, fmtErrs, errHandled,
                   callLvl, dropped, panicked, closeReturned, chanCloses,
                   wgWaits, stopCalls, stopChCloses, finalFlushes, kvVars>>

\* pushLog: the send meets a worker blocked in its receive (the only way a
\* send on an unbuffered channel completes); the worker goes on to call
\* logger.formatter(logger.writer, keyVals)
PushLogHandOff(p, w) ==
    /\ Running
    /\ ppc[p] = "send"
    /\ ~chanClosed
    /\ chanSize = 0
    /\ wpc[w] = "recv"
    /\ FirstRecv(w)
    /\ wpc' = [wpc EXCEPT ![w] = "fmt"]
    /\ wcur' = [wcur EXCEPT ![w] = prec[p]]
    /\ enqOrder' = Append(enqOrder, prec[p])
    /\ fmtOrder' = Append(fmtOrder, prec[p])
    /\ ppc' = [ppc EXCEPT ![p] = "idle"]
    /\ prec' = [prec EXCEPT ![p] = 0]
    /\ UNCHANGED <<cfgVars, logVars, nlogs, cpc, aborted, bwVars, directVars,
                   swVars, mlVars, sinkOut, sinkFailed, wrOrder, fmtErrs,
                   errHandled, callLvl, dropped, panicked, closeReturned,
                   chanCloses, wgWaits, stopCalls, stopChCloses, finalFlushes,
                   kvVars>>

\* pushLog: the send finds entriesChan closed (also when it was blocked on
\* a full channel while Close ran): the runtime panics. The panic is either
\* recovered by the caller or ends the process.
PushLogSendOnClosed(p, recovered) ==
    /\ Running
    /\ ppc[p] = "send"
    /\ chanClosed
    /\ panicked' = panicked \cup {prec[p]}
    /\ ppc' = [ppc EXCEPT ![p] = IF recovered THEN "idle" ELSE "dead"]
    /\ prec' = [prec EXCEPT ![p] = 0]
    /\ aborted' = ~recovered
    /\ UNCHANGED <<cfgVars, logVars, nlogs, wpc, wcur, cpc, bwVars, directVars,
                   swVars, mlVars, sinkOut, sinkFailed, enqOrder, fmtOrder,
                   wrOrder, fmtErrs, errHandled, callLvl, dropped,
                   closeReturned, chanCloses, wgWaits, stopCalls, stopChCloses,
                   finalFlushes, kvVars>>

\* --------------------------------------------------------------- workers
\* logAsync: `range logger.entriesChan` receives a buffered record and
\* logger.formatter(logger.writer, keyVals) is called
WorkerRecv(w) ==
    /\ Running
    /\ wpc[w] = "recv"
    /\ FirstRecv(w)
    /\ entriesChan # <<>>
    /\ wcur' = [wcur EXCEPT ![w] = ChanRecv(entriesChan).val]
    /\ entriesChan' = ChanRecv(entriesChan).rest
    /\ fmtOrder' = Append(fmtOrder, ChanRecv(entriesChan).val)
    /\ wpc' = [wpc EXCEPT ![w] = "fmt"]
    /\ UNCHANGED <<cfgVars, chanClosed, closed, closeMu, wgCount, ppc, prec,
                   nlogs, cpc, aborted, bwVars, directVars, swVars, mlVars,
                   sinkOut, sinkFailed, enqOrder, wrOrder, fmtErrs, errHandled,
                   callLvl, dropped, panicked, closeReturned, chanCloses,
                   wgWaits, stopCalls, stopChCloses, finalFlushes, kvVars>>

\* logAsync: the range loop ends, deferred wg.Done() runs
WorkerExit(w) ==
    /\ Running
    /\ wpc[w] = "recv"
    /\ FirstRecv(w)
    /\ RangeEnds(entriesChan, chanClosed)
    /\ wpc' = [wpc EXCEPT ![w] = "done"]
    /\ wgCount' = wgCount - 1
    /\ UNCHANGED <<cfgVars, entriesChan, chanClosed, closed, closeMu, ppc,
                   prec, nlogs, wcur, cpc, aborted, bwVars, directVars, swVars,
                   mlVars, histVars, kvVars>>

\* logAsync: the Formatter has returned err for record r:
\* `if err != nil { logger.opts.ErrHandler(err, keyVals) }`, next iteration
FormatReturns(w, err) ==
    /\ wpc' = [wpc EXCEPT ![w] = "recv"]
    /\ wcur' = [wcur EXCEPT ![w] = 0]
    /\ fmtErrs' = IF err THEN fmtErrs \cup {wcur[w]} ELSE fmtErrs
    /\ errHandled' = IF HandlesErr(err) THEN Append(errHandled, wcur[w])
                     ELSE errHandled

\* the Formatter returns an error and no byte has reached the writer: the
\* serialization failed, or the Write of a plain io.Writer failed
FormatFails(w) ==
    /\ Running
    /\ wpc[w] = "fmt"
    /\ FormatReturns(w, TRUE)
    /\ UNCHANGED <<cfgVars, logVars, ppc, prec, nlogs, cpc, aborted, bwVars,
                   directVars, swVars, mlVars, sinkOut, sinkFailed, enqOrder,
                   fmtOrder, wrOrder, callLvl, dropped, panicked,
                   closeReturned, chanCloses, wgWaits, stopCalls, stopChCloses,
                   finalFlushes, kvVars>>

\* the Formatter writes the serialized record to a plain io.Writer and
\* returns nil
FormatWritePlain(w) ==
    /\ Running
    /\ wpc[w] = "fmt"
    /\ writerKind = "plain"
    /\ sinkOut' = sinkOut \o Payload(wcur[w])
    /\ wrOrder' = Append(wrOrder, wcur[w])
    /\ FormatReturns(w, FALSE)
    /\ UNCHANGED <<cfgVars, logVars, ppc, prec, nlogs, cpc, aborted, bwVars,
                   directVars, swVars, mlVars, sinkFailed, enqOrder, fmtOrder,
                   callLvl, dropped, panicked, closeReturned, chanCloses,
                   wgWaits, stopCalls, stopChCloses, finalFlushes, kvVars>>

\* the Formatter calls BufferedWriter.Write: bw.mu.Lock()
FormatWriteLock(w) ==
    /\ Running
    /\ wpc[w] = "fmt"
    /\ writerKind = "buffered"
    /\ MutexFree(mu)
    /\ mu' = WorkerId(w)
    /\ wpc' = [wpc EXCEPT ![w] = "bwWrite"]
    /\ UNCHANGED <<cfgVars, logVars, ppc, prec, nlogs, wcur, cpc, aborted,
                   bwStopped, stopMu, bwBuf, bwErr, stopChClosed, bwWg, tpc,
                   directVars, swVars, mlVars, histVars, kvVars>>

\* BufferedWriter.Write under mu: isStopped() (RLock on stopMu), the bufio
\* write, Reset on error, deferred Unlock; the Formatter returns its error
FormatWriteBuffered(w, failAt) ==
    /\ Running
    /\ wpc[w] = "bwWrite"
    /\ stopMu = NoOwner
    /\ LET r == BWWriteBody(bwBuf, bwErr, Payload(wcur[w]), bufSize,
                            bwStopped, failAt)
       IN /\ bwBuf' = r.buf
          /\ bwErr' = r.berr
          /\ sinkOut' = sinkOut \o r.out
          /\ sinkFailed' = (sinkFailed \/ r.err)
          /\ wrOrder' = IF ~r.err /\ r.n = Len(Payload(wcur[w]))
                        THEN Append(wrOrder, wcur[w]) ELSE wrOrder
          /\ FormatReturns(w, r.err)
    /\ mu' = NoOwner
    /\ UNCHANGED <<cfgVars, logVars, ppc, prec, nlogs, cpc, aborted, bwStopped,
                   stopMu, stopChClosed, bwWg, tpc, directVars, swVars, mlVars,
                   enqOrder, fmtOrder, callLvl, dropped, panicked,
                   closeReturned, chanCloses, wgWaits, stopCalls, stopChCloses,
                   finalFlushes, kvVars>>

\* ----------------------------------------------------- AsyncLogger.Close
\* Close is called; logger.closeMu.Lock();
\* `if !logger.closed { logger.closed = true; close(logger.entriesChan)`.
\* The callers are interchangeable: the lowest-numbered one that has not
\* called yet is the next to get the lock.
CloseBegin(c) ==
    /\ Running
    /\ cpc[c] = "idle"
    /\ \A d \in Closers : d < c => cpc[d] # "idle"
    /\ closeMu = NoOwner
    /\ closeMu' = CloserId(c)
    /\ IF MustClose(closed)
       THEN /\ closed' = TRUE
            /\ chanClosed' = TRUE
            /\ chanCloses' = chanCloses + 1
            /\ cpc' = [cpc EXCEPT ![c] = "wait"]
       ELSE /\ cpc' = [cpc EXCEPT ![c] = "unlock"]
            /\ UNCHANGED <<closed, chanClosed, chanCloses>>
    /\ UNCHANGED <<cfgVars, entriesChan, wgCount, ppc, prec, nlogs, wpc, wcur,
                   aborted, bwVars, directVars, swVars, mlVars, sinkOut,
                   sinkFailed, enqOrder, fmtOrder, wrOrder, fmtErrs,
                   errHandled, callLvl, dropped, panicked, closeReturned,
                   wgWaits, stopCalls, stopChCloses, finalFlushes, kvVars>>

\* logger.wg.Wait() returns; bw.Stop() is called when the writer is a
\* *BufferedWriter
CloseWait(c) ==
    /\ Running
    /\ cpc[c] = "wait"
    /\ WgWaitReturns(wgCount)
    /\ wgWaits' = wgWaits + 1
    /\ IF writerKind = "buffered"
       THEN /\ cpc' = [cpc EXCEPT ![c] = "stop"]
            /\ stopCalls' = stopCalls + 1
       ELSE /\ cpc' = [cpc EXCEPT ![c] = "unlock"]
            /\ UNCHANGED stopCalls
    /\ UNCHANGED <<cfgVars, logVars, ppc, prec, nlogs, wpc, wcur, aborted,
                   bwVars, directVars, swVars, mlVars, sinkOut, sinkFailed,
                   enqOrder, fmtOrder, wrOrder, fmtErrs, errHandled, callLvl,
                   dropped, panicked, closeReturned, chanCloses, stopChCloses,
                   finalFlushes, kvVars>>

\* deferred logger.closeMu.Unlock(); Close returns nil
CloseUnlock(c) ==
    /\ Running
    /\ cpc[c] = "unlock"
    /\ closeMu' = NoOwner
    /\ cpc' = [cpc EXCEPT ![c] = "done"]
    /\ closeReturned' = closeReturned \cup {c}
    /\ UNCHANGED <<cfgVars, entriesChan, chanClosed, closed, wgCount, ppc,
                   prec, nlogs, wpc, wcur, aborted, bwVars, directVars, swVars,
                   mlVars, sinkOut, sinkFailed, enqOrder, fmtOrder, wrOrder,
                   fmtErrs, errHandled, callLvl, dropped, panicked, chanCloses,
                   wgWaits, stopCalls, stopChCloses, finalFlushes, kvVars>>

\* --------------------------------- BufferedWriter.Stop, called from Close
\* bw.stopMu.Lock();
\* `if !bw.stopped { bw.stopped = true; close(bw.stopFlushCh)`
StopBegin(c) ==
    /\ Running
    /\ cpc[c] = "stop"
    /\ stopMu = NoOwner
    /\ stopMu' = CloserId(c)
    /\ IF MustStop(bwStopped)
       THEN /\ bwStopped' = TRUE
            /\ stopChClosed' = TRUE
            /\ stopChCloses' = stopChCloses + 1
            /\ cpc' = [cpc EXCEPT ![c] = "stopWait"]
       ELSE /\ cpc' = [cpc EXCEPT ![c] = "stopUnlock"]
            /\ UNCHANGED <<bwStopped, stopChClosed, stopChCloses>>
    /\ UNCHANGED <<cfgVars, logVars, ppc, prec, nlogs, wpc, wcur, aborted, mu,
                   bwBuf, bwErr, bwWg, tpc, directVars, swVars, mlVars,
                   sinkOut, sinkFailed, enqOrder, fmtOrder, wrOrder, fmtErrs,
                   errHandled, callLvl, dropped, panicked, closeReturned,
                   chanCloses, wgWaits, stopCalls, finalFlushes, kvVars>>

\* bw.wg.Wait() returns, bw.flush() is called and takes bw.mu
StopWait(c) ==
    /\ Running
    /\ cpc[c] = "stopWait"
    /\ WgWaitReturns(bwWg)
    /\ MutexFree(mu)
    /\ mu' = CloserId(c)
    /\ finalFlushes' = finalFlushes + 1
    /\ cpc' = [cpc EXCEPT ![c] = "flushIn"]
    /\ UNCHANGED <<cfgVars, logVars, ppc, prec, nlogs, wpc, wcur, aborted,
                   bwStopped, stopMu, bwBuf, bwErr, stopChClosed, bwWg, tpc,
                   directVars, swVars, mlVars, sinkOut, sinkFailed, enqOrder,
                   fmtOrder, wrOrder, fmtErrs, errHandled, callLvl, dropped,
                   panicked, closeReturned, chanCloses, wgWaits, stopCalls,
                   stopChCloses, kvVars>>

\* flush: bufWriter.Flush(), Reset on error, deferred bw.mu.Unlock()
StopFlush(c, fail) ==
    /\ Running
    /\ cpc[c] = "flushIn"
    /\ LET r == BWFlushBody(bwBuf, bwErr, fail)
       IN /\ bwBuf' = r.buf
          /\ bwErr' = r.berr
          /\ sinkOut' = sinkOut \o r.out
          /\ sinkFailed' = (sinkFailed \/ r.err)
    /\ mu' = NoOwner
    /\ cpc' = [cpc EXCEPT ![c] = "stopUnlock"]
    /\ UNCHANGED <<cfgVars, logVars, ppc, prec, nlogs, wpc, wcur, aborted,
                   bwStopped, stopMu, stopChClosed, bwWg, tpc, directVars,
                   swVars, mlVars, enqOrder, fmtOrder, wrOrder, fmtErrs,
                   errHandled, callLvl, dropped, panicked, closeReturned,
                   chanCloses, wgWaits, stopCalls, stopChCloses, finalFlushes,
                   kvVars>>

\* deferred bw.stopMu.Unlock(); Stop returns to Close
StopUnlock(c) ==
    /\ Running
    /\ cpc[c] = "stopUnlock"
    /\ stopMu' = NoOwner
    /\ cpc' = [cpc EXCEPT ![c] = "unlock"]
    /\ UNCHANGED <<cfgVars, logVars, ppc, prec, nlogs, wpc, wcur, aborted,
                   bwStopped, mu, bwBuf, bwErr, stopChClosed, bwWg, tpc,
                   directVars, swVars, mlVars, histVars, kvVars>>

\* ------------------------------------------- BufferedWriter.flushAsync
\* `case <-bw.ticker.C:` bw.flush() is called and takes bw.mu
TimerTick ==
    /\ Running
    /\ tpc = "select"
    /\ MutexFree(mu)
    /\ mu' = TimerId
    /\ tpc' = "flushIn"
    /\ UNCHANGED <<cfgVars, logVars, procVars, bwStopped, stopMu, bwBuf, bwErr,
                   stopChClosed, bwWg, directVars, swVars, mlVars, histVars,
                   kvVars>>

\* flush: bufWriter.Flush(), Reset on error, deferred bw.mu.Unlock()
TimerFlush(fail) ==
    /\ Running
    /\ tpc = "flushIn"
    /\ LET r == BWFlushBody(bwBuf, bwErr, fail)
       IN /\ bwBuf' = r.buf
          /\ bwErr' = r.berr
          /\ sinkOut' = sinkOut \o r.out
          /\ sinkFailed' = (sinkFailed \/ r.err)
    /\ mu' = NoOwner
    /\ tpc' = "select"
    /\ UNCHANGED <<cfgVars, logVars, procVars, bwStopped, stopMu, stopChClosed,
                   bwWg, directVars, swVars, mlVars, enqOrder, fmtOrder,
                   wrOrder, fmtErrs, errHandled, callLvl, dropped, panicked,
                   closeReturned, chanCloses, wgWaits, stopCalls, stopChCloses,
                   finalFlushes, kvVars>>

\* `case <-bw.stopFlushCh: return`, deferred ticker.Stop() and wg.Done()
TimerExit ==
    /\ Running
    /\ tpc = "select"
    /\ stopChClosed
    /\ tpc' = "done"
    /\ bwWg' = bwWg - 1
    /\ UNCHANGED <<cfgVars, logVars, procVars, bwStopped, stopMu, mu, bwBuf,
                   bwErr, stopChClosed, directVars, swVars, mlVars, histVars,
                   kvVars>>

\* ------------------------- goroutines using a BufferedWriter by themselves
\* Idle callers are interchangeable: the lowest-numbered one calls next.
FirstIdleWriter(d) == \A e \in Writers : e < d => dpc[e] # "idle"

\* Write(p) is called with chunk ch as p; bw.mu.Lock()
BWWriteLock(d, ch) ==
    /\ Running
    /\ dpc[d] = "idle"
    /\ FirstIdleWriter(d)
    /\ ch \notin dcalled
    /\ MutexFree(mu)
    /\ mu' = WriterId(d)
    /\ dpc' = [dpc EXCEPT ![d] = "bwWrite"]
    /\ dcur' = [dcur EXCEPT ![d] = ch]
    /\ dcalled' = dcalled \cup {ch}
    /\ UNCHANGED <<cfgVars, logVars, procVars, bwStopped, stopMu, bwBuf, bwErr,
                   stopChClosed, bwWg, tpc, dlog, dlvl, swVars, mlVars,
                   histVars, kvVars>>

\* Write under mu: isStopped() (RLock on stopMu), the bufio write, Reset on
\* error, deferred Unlock; Write returns (n, err)
BWWrite(d, failAt) ==
    /\ Running
    /\ dpc[d] = "bwWrite"
    /\ stopMu = NoOwner
    /\ LET r == BWWriteBody(bwBuf, bwErr, Payload(dcur[d]), bufSize,
                            bwStopped, failAt)
       IN /\ bwBuf' = r.buf
          /\ bwErr' = r.berr
          /\ sinkOut' = sinkOut \o r.out
          /\ sinkFailed' = (sinkFailed \/ r.failed)
          /\ wrOrder' = IF ~r.err /\ r.n = Len(Payload(dcur[d]))
                        THEN Append(wrOrder, dcur[d]) ELSE wrOrder
          /\ dlog' = Append(dlog, [chunk |-> dcur[d], n |-> r.n,
                                   err |-> r.err, failed |-> r.failed,
                                   stopped |-> bwStopped,
                                   beforeStop |-> stopCalls = 0])
    /\ mu' = NoOwner
    /\ dpc' = [dpc EXCEPT ![d] = "idle"]
    /\ dcur' = [dcur EXCEPT ![d] = 0]
    /\ UNCHANGED <<cfgVars, logVars, procVars, bwStopped, stopMu, stopChClosed,
                   bwWg, tpc, dcalled, dlvl, swVars, mlVars, enqOrder,
                   fmtOrder, fmtErrs, errHandled, callLvl, dropped, panicked,
                   closeReturned, chanCloses, wgWaits, stopCalls, stopChCloses,
                   finalFlushes, kvVars>>

\* Stop is called by a goroutine of the program (the callers are
\* interchangeable: the lowest-numbered one that has not called yet is next)
StopCall(c) ==
    /\ Running
    /\ cpc[c] = "idle"
    /\ \A e \in Closers : e < c => cpc[e] # "idle"
    /\ cpc' = [cpc EXCEPT ![c] = "stop"]
    /\ stopCalls' = stopCalls + 1
    /\ UNCHANGED <<cfgVars, logVars, ppc, prec, nlogs, wpc, wcur, aborted,
                   bwVars, directVars, swVars, mlVars, sinkOut, sinkFailed,
                   enqOrder, fmtOrder, wrOrder, fmtErrs, errHandled, callLvl,
                   dropped, panicked, closeReturned, chanCloses, wgWaits,
                   stopChCloses, finalFlushes, kvVars>>

\* ------------------------------- a SyncLogger over the BufferedWriter
\* SyncLogger.log(lvl, keyValues) with the chunk ch as the formatted entry:
\* the level gate; the Formatter calls Write once on the writer, which
\* starts with bw.mu.Lock() (a Formatter or Write error goes to ErrHandler,
\* which changes nothing of the logger)
SyncLog(d, lvl, ch) ==
    /\ Running
    /\ dpc[d] = "idle"
    /\ FirstIdleWriter(d)
    /\ ch \notin dcalled
    /\ dcalled' = dcalled \cup {ch}
    /\ dlvl' = dlvl \cup {<<ch, lvl>>}
    /\ IF BetweenMinMax(lvl)
       THEN /\ MutexFree(mu)
            /\ mu' = WriterId(d)
            /\ dpc' = [dpc EXCEPT ![d] = "bwWrite"]
            /\ dcur' = [dcur EXCEPT ![d] = ch]
       ELSE UNCHANGED <<mu, dpc, dcur>>
    /\ UNCHANGED <<cfgVars, logVars, procVars, bwStopped, stopMu, bwBuf, bwErr,
                   stopChClosed, bwWg, tpc, dlog, swVars, mlVars, histVars,
                   kvVars>>

\* SyncLogger.Close: Stop is called when the writer is a *BufferedWriter
SyncClose(c) ==
    /\ writerKind = "buffered"
    /\ StopCall(c)

\* ------------------------------------------------------------- syncWriter
\* Idle callers are interchangeable: the lowest-numbered one calls next.
FirstIdleSyncWriter(d) == \A e \in Writers : e < d => swpc[e] # "idle"

\* `return sw.w.Write(p)`: Write returns what the wrapped sink returned
SWReturn(sinkN, sinkErr) == [n |-> sinkN, err |-> sinkErr]

\* Write(p) is called with chunk ch as p; sw.mu.Lock(); sw.w.Write(p) is
\* entered
SWWriteLock(d, ch) ==
    /\ swpc[d] = "idle"
    /\ FirstIdleSyncWriter(d)
    /\ ch \notin swCalled
    /\ MutexFree(swMu)
    /\ swMu' = WriterId(d)
    /\ swpc' = [swpc EXCEPT ![d] = "inSink"]
    /\ swcur' = [swcur EXCEPT ![d] = ch]
    /\ swCalled' = swCalled \cup {ch}
    /\ UNCHANGED <<cfgVars, logVars, procVars, bwVars, directVars, swn, swOut,
                   swLog, mlVars, histVars, kvVars>>

\* the wrapped sink, which is not safe for concurrent use, takes the next
\* byte of p
SWSinkByte(d) ==
    /\ swpc[d] = "inSink"
    /\ swn[d] < Len(Payload(swcur[d]))
    /\ swOut' = Append(swOut, Payload(swcur[d])[swn[d] + 1])
    /\ swn' = [swn EXCEPT ![d] = swn[d] + 1]
    /\ UNCHANGED <<cfgVars, logVars, procVars, bwVars, directVars, swMu, swpc,
                   swcur, swCalled, swLog, mlVars, histVars, kvVars>>

\* the wrapped sink returns (n, err): all of p taken, or fewer bytes and an
\* error; deferred sw.mu.Unlock(); Write returns
SWSinkReturns(d, sinkErr) ==
    /\ swpc[d] = "inSink"
    /\ sinkErr \/ swn[d] = Len(Payload(swcur[d]))
    /\ swLog' = Append(swLog, [chunk |-> swcur[d],
                               n |-> SWReturn(swn[d], sinkErr).n,
                               err |-> SWReturn(swn[d], sinkErr).err,
                               sinkN |-> swn[d], sinkErr |-> sinkErr])
    /\ swMu' = NoOwner
    /\ swpc' = [swpc EXCEPT ![d] = "idle"]
    /\ swcur' = [swcur EXCEPT ![d] = 0]
    /\ swn' = [swn EXCEPT ![d] = 0]
    /\ UNCHANGED <<cfgVars, logVars, procVars, bwVars, directVars, swCalled,
                   swOut, mlVars, histVars, kvVars>>

\* ------------------------------------------------------------ MultiLogger
\* Idle callers are interchangeable: the lowest-numbered one calls next.
FirstIdleMulti(p) == \A q \in Producers : q < p => mlpc[q] # 0

\* Critical, Error, Warn, Info, Debug, Log: each calls the method of the
\* same name on the constituent (identified here by the method's level)
MultiForwardAsLog(lvl) == LevelNone
MultiForward(lvl) ==
    CASE lvl = LevelCritical -> LevelCritical
      [] lvl = LevelError -> LevelError
      [] lvl = LevelWarning -> LevelWarning
      [] lvl = LevelInfo -> LevelInfo
      [] lvl = LevelDebug -> LevelDebug
      [] lvl = LevelNone -> LevelNone

\* xerr.MultiError.Add and ErrOrNil, as used by Close
MErrAddKeepsLast(errs, e) == <<e>>
MErrAdd(errs, e) == Append(errs, e)
ErrOrNil(errs) == [isNil |-> errs = <<>>, errs |-> errs]

\* a logging method or Close is called on the MultiLogger; its range loop
\* starts at the first constituent
MultiCall(p, op, lvl) ==
    /\ mlpc[p] = 0
    /\ FirstIdleMulti(p)
    /\ Len(mlCallLog) < MaxMultiCalls
    /\ mlCallLog' = Append(mlCallLog, [op |-> op, lvl |-> lvl,
                                       kv |-> Len(mlCallLog) + 1])
    /\ mlop' = [mlop EXCEPT ![p] = Len(mlCallLog) + 1]
    /\ mlErrs' = [mlErrs EXCEPT ![p] = <<>>]
    /\ mlpc' = [mlpc EXCEPT ![p] = 1]
    /\ UNCHANGED <<cfgVars, logVars, procVars, bwVars, directVars, swVars,
                   mlEvents, mlRets, histVars, kvVars>>

\* `for _, lgr := range logger.loggers { lgr.<Method>(keyValues...) }`:
\* one iteration; the method returns after the last one
MultiForwardNext(p) ==
    /\ mlpc[p] \in Loggers
    /\ mlCallLog[mlop[p]].op = "log"
    /\ mlEvents' = [mlEvents EXCEPT ![mlpc[p]][mlop[p]] =
           Append(@, [op |-> "log",
                      lvl |-> MultiForward(mlCallLog[mlop[p]].lvl),
                      kv |-> mlCallLog[mlop[p]].kv, err |-> FALSE])]
    /\ IF mlpc[p] < NumLoggers
       THEN /\ mlpc' = [mlpc EXCEPT ![p] = mlpc[p] + 1]
            /\ UNCHANGED mlop
       ELSE /\ mlpc' = [mlpc EXCEPT ![p] = 0]
            /\ mlop' = [mlop EXCEPT ![p] = 0]
    /\ UNCHANGED <<cfgVars, logVars, procVars, bwVars, directVars, swVars,
                   mlErrs, mlCallLog, mlRets, histVars, kvVars>>

\* Close: `if err := lgr.Close(); err != nil { mErr = mErr.Add(err) }`:
\* one iteration; after the last one `return mErr.ErrOrNil()`
MultiCloseNext(p, err) ==
    /\ mlpc[p] \in Loggers
    /\ mlCallLog[mlop[p]].op = "close"
    /\ mlEvents' = [mlEvents EXCEPT ![mlpc[p]][mlop[p]] =
           Append(@, [op |-> "close", lvl |-> LevelNone, kv |-> 0,
                      err |-> err])]
    /\ LET errs == IF err THEN MErrAdd(mlErrs[p], mlpc[p]) ELSE mlErrs[p]
       IN IF mlpc[p] < NumLoggers
          THEN /\ mlpc' = [mlpc EXCEPT ![p] = mlpc[p] + 1]
               /\ mlErrs' = [mlErrs EXCEPT ![p] = errs]
               /\ UNCHANGED <<mlop, mlRets>>
          ELSE /\ mlpc' = [mlpc EXCEPT ![p] = 0]
               /\ mlop' = [mlop EXCEPT ![p] = 0]
               /\ mlErrs' = [mlErrs EXCEPT ![p] = <<>>]
               /\ mlRets' = [mlRets EXCEPT ![mlop[p]] =
                                 Append(@, ErrOrNil(errs))]
    /\ UNCHANGED <<cfgVars, logVars, procVars, bwVars, directVars, swVars,
                   mlCallLog, histVars, kvVars>>

\* ------------------------------------------------------------------ Next
ProducerStep ==
    \E p \in Producers :
        \/ \E lvl \in CallLevels : PushLog(p, lvl)
        \/ PushLogSend(p)
        \/ \E w \in Workers : PushLogHandOff(p, w)
        \/ \E recovered \in BOOLEAN : PushLogSendOnClosed(p, recovered)

WorkerStep ==
    \E w \in Workers :
        \/ WorkerRecv(w)
        \/ WorkerExit(w)
        \/ FormatFails(w)
        \/ FormatWritePlain(w)
        \/ FormatWriteLock(w)
        \/ \E failAt \in FailChoices : FormatWriteBuffered(w, failAt)

CloserStep ==
    \E c \in Closers :
        \/ CloseBegin(c)
        \/ CloseWait(c)
        \/ CloseUnlock(c)
        \/ StopBegin(c)
        \/ StopWait(c)
        \/ \E fail \in FlushFailChoices : StopFlush(c, fail)
        \/ StopUnlock(c)

TimerStep ==
    \/ TimerTick
    \/ \E fail \in FlushFailChoices : TimerFlush(fail)
    \/ TimerExit

Next == ProducerStep \/ WorkerStep \/ CloserStep \/ TimerStep

Spec == Init /\ [][Next]_vars

\* --------------------------------------- the AsyncLogger, fairly scheduled
\* the steps of one goroutine
WorkerRuns(w) ==
    \/ WorkerRecv(w)
    \/ WorkerExit(w)
    \/ FormatFails(w)
    \/ FormatWritePlain(w)
    \/ FormatWriteLock(w)
    \/ \E failAt \in FailChoices : FormatWriteBuffered(w, failAt)

CloserRuns(c) ==
    \/ CloseBegin(c)
    \/ CloseWait(c)
    \/ CloseUnlock(c)
    \/ StopBegin(c)
    \/ StopWait(c)
    \/ \E fail \in FlushFailChoices : StopFlush(c, fail)
    \/ StopUnlock(c)

\* NewAsyncLogger with one worker or more: over a plain writer with every
\* channel size, and over a BufferedWriter whose timer runs with one or two
\* workers and a channel of size one
LiveInit ==
    /\ Init
    /\ workersNo >= 1
    /\ writerKind = "buffered" => (timerOn /\ workersNo <= 2 /\ chanSize = 1)

\* The Go scheduler runs every goroutine that can run, so a worker, a Close
\* call and the timer's flush take their next step when it stays possible.
\* bw.mu is taken again and again by the timer's flush: sync.Mutex hands the
\* lock to a goroutine that keeps waiting for it (starvation mode), and
\* select picks among its ready cases at random, so the workers waiting for
\* bw.mu and the timer with its stop channel closed take their step when it
\* is possible again and again. Nothing is assumed about the producers.
LiveSpec ==
    /\ LiveInit
    /\ [][Next]_vars
    /\ \A w \in Workers : WF_vars(WorkerRuns(w))
    /\ \A c \in Closers : WF_vars(CloserRuns(c))
    /\ WF_vars(\E fail \in FlushFailChoices : TimerFlush(fail))
    /\ SF_vars(\E w \in Workers : FormatWriteLock(w))
    /\ SF_vars(TimerExit)

\* ------------------------------------- a BufferedWriter used on its own
\* NewBufferedWriter; Write and Stop are called by the program's goroutines
BWInit ==
    /\ chanSize = 0
    /\ workersNo = 0
    /\ writerKind = "buffered"
    /\ bufSize \in BufSize..(BufSize + 1)
    /\ flushInterval \in FlushIntervals
    /\ timerOn = StartsTimer(flushInterval)
    /\ minLevel = LevelWarning
    /\ maxLevel = LevelCritical
    /\ entriesChan = <<>>
    /\ chanClosed = FALSE
    /\ closed = FALSE
    /\ closeMu = NoOwner
    /\ wgCount = 0
    /\ ppc = [p \in Producers |-> "idle"]
    /\ prec = [p \in Producers |-> 0]
    /\ nlogs = 0
    /\ wpc = [w \in Workers |-> "none"]
    /\ wcur = [w \in Workers |-> 0]
    /\ cpc = [c \in Closers |-> "idle"]
    /\ aborted = FALSE
    /\ bwStopped = FALSE
    /\ stopMu = NoOwner
    /\ mu = NoOwner
    /\ bwBuf = <<>>
    /\ bwErr = FALSE
    /\ stopChClosed = FALSE
    /\ bwWg = IF timerOn THEN 1 ELSE 0
    /\ tpc = IF timerOn THEN "select" ELSE "none"
    /\ dpc = [d \in Writers |-> "idle"]
    /\ dcur = [d \in Writers |-> 0]
    /\ dcalled = {}
    /\ dlog = <<>>
    /\ dlvl = {}
    /\ swMu = NoOwner
    /\ swpc = [d \in Writers |-> "idle"]
    /\ swcur = [d \in Writers |-> 0]
    /\ swn = [d \in Writers |-> 0]
    /\ swCalled = {}
    /\ swOut = <<>>
    /\ swLog = <<>>
    /\ mlpc = [p \in Producers |-> 0]
    /\ mlop = [p \in Producers |-> 0]
    /\ mlErrs = [p \in Producers |-> <<>>]
    /\ mlCallLog = <<>>
    /\ mlEvents = [i \in Loggers |-> [c \in MultiCalls |-> <<>>]]
    /\ mlRets = [c \in MultiCalls |-> <<>>]
    /\ sinkOut = <<>>
    /\ sinkFailed = FALSE
    /\ enqOrder = <<>>
    /\ fmtOrder = <<>>
    /\ wrOrder = <<>>
    /\ fmtErrs = {}
    /\ errHandled = <<>>
    /\ callLvl = <<>>
    /\ dropped = {}
    /\ panicked = {}
    /\ closeReturned = {}
    /\ chanCloses = 0
    /\ wgWaits = 0
    /\ stopCalls = 0
    /\ stopChCloses = 0
    /\ finalFlushes = 0
    /\ kvOpts = DefaultKvOpts
    /\ KVIdle

DirectWriterStep ==
    \E d \in Writers :
        \/ \E ch \in Chunks : BWWriteLock(d, ch)
        \/ \E failAt \in FailChoices : BWWrite(d, failAt)

StopperStep ==
    \E c \in Closers :
        \/ StopCall(c)
        \/ StopBegin(c)
        \/ StopWait(c)
        \/ \E fail \in FlushFailChoices : StopFlush(c, fail)
        \/ StopUnlock(c)

BWNext == DirectWriterStep \/ StopperStep \/ TimerStep

BWSpec == BWInit /\ [][BWNext]_vars

\* ------------- a BufferedWriter with its timer, on which Stop is not called
\* NewBufferedWriter with a flush interval above zero
BWTimerInit ==
    /\ BWInit
    /\ StartsTimer(flushInterval)

BWTimerNext ==
    \/ DirectWriterStep
    \/ TimerTick
    \/ \E fail \in FlushFailChoices : TimerFlush(fail)

\* The ticker keeps ticking and the Go scheduler runs the timer goroutine
\* and a goroutine that is inside Write; bw.mu, which Writes take again and
\* again, is handed to the waiting timer goroutine (starvation mode of
\* sync.Mutex). Nothing makes the program call Write again.
BWTimerSpec ==
    /\ BWTimerInit
    /\ [][BWTimerNext]_vars
    /\ SF_vars(TimerTick)
    /\ WF_vars(\E fail \in FlushFailChoices : TimerFlush(fail))
    /\ \A d \in Writers : WF_vars(\E failAt \in FailChoices : BWWrite(d, failAt))

\* --------------------------------------------- a syncWriter over a sink
\* NewSyncWriter; Write is called by the program's goroutines
SWInit ==
    /\ chanSize = 0
    /\ workersNo = 0
    /\ writerKind = "plain"
    /\ bufSize = BufSize
    /\ flushInterval = 0
    /\ timerOn = FALSE
    /\ minLevel = LevelWarning
    /\ maxLevel = LevelCritical
    /\ entriesChan = <<>>
    /\ chanClosed = FALSE
    /\ closed = FALSE
    /\ closeMu = NoOwner
    /\ wgCount = 0
    /\ ppc = [p \in Producers |-> "idle"]
    /\ prec = [p \in Producers |-> 0]
    /\ nlogs = 0
    /\ wpc = [w \in Workers |-> "none"]
    /\ wcur = [w \in Workers |-> 0]
    /\ cpc = [c \in Closers |-> "idle"]
    /\ aborted = FALSE
    /\ bwStopped = FALSE
    /\ stopMu = NoOwner
    /\ mu = NoOwner
    /\ bwBuf = <<>>
    /\ bwErr = FALSE
    /\ stopChClosed = FALSE
    /\ bwWg = IF timerOn THEN 1 ELSE 0
    /\ tpc = IF timerOn THEN "select" ELSE "none"
    /\ dpc = [d \in Writers |-> "idle"]
    /\ dcur = [d \in Writers |-> 0]
    /\ dcalled = {}
    /\ dlog = <<>>
    /\ dlvl = {}
    /\ swMu = NoOwner
    /\ swpc = [d \in Writers |-> "idle"]
    /\ swcur = [d \in Writers |-> 0]
    /\ swn = [d \in Writers |-> 0]
    /\ swCalled = {}
    /\ swOut = <<>>
    /\ swLog = <<>>
    /\ mlpc = [p \in Producers |-> 0]
    /\ mlop = [p \in Producers |-> 0]
    /\ mlErrs = [p \in Producers |-> <<>>]
    /\ mlCallLog = <<>>
    /\ mlEvents = [i \in Loggers |-> [c \in MultiCalls |-> <<>>]]
    /\ mlRets = [c \in MultiCalls |-> <<>>]
    /\ sinkOut = <<>>
    /\ sinkFailed = FALSE
    /\ enqOrder = <<>>
    /\ fmtOrder = <<>>
    /\ wrOrder = <<>>
    /\ fmtErrs = {}
    /\ errHandled = <<>>
    /\ callLvl = <<>>
    /\ dropped = {}
    /\ panicked = {}
    /\ closeReturned = {}
    /\ chanCloses = 0
    /\ wgWaits = 0
    /\ stopCalls = 0
    /\ stopChCloses = 0
    /\ finalFlushes = 0
    /\ kvOpts = DefaultKvOpts
    /\ KVIdle

SWNext ==
    \E d \in Writers :
        \/ \E ch \in Chunks : SWWriteLock(d, ch)
        \/ SWSinkByte(d)
        \/ \E sinkErr \in BOOLEAN : SWSinkReturns(d, sinkErr)

SWSpec == SWInit /\ [][SWNext]_vars

\* ------------------------------------ a MultiLogger over its constituents
\* NewMultiLogger(loggers...); its methods are called by the program's
\* goroutines
MLInit ==
    /\ chanSize = 0
    /\ workersNo = 0
    /\ writerKind = "plain"
    /\ bufSize = BufSize
    /\ flushInterval = 0
    /\ timerOn = FALSE
    /\ minLevel = LevelWarning
    /\ maxLevel = LevelCritical
    /\ entriesChan = <<>>
    /\ chanClosed = FALSE
    /\ closed = FALSE
    /\ closeMu = NoOwner
    /\ wgCount = 0
    /\ ppc = [p \in Producers |-> "idle"]
    /\ prec = [p \in Producers |-> 0]
    /\ nlogs = 0
    /\ wpc = [w \in Workers |-> "none"]
    /\ wcur = [w \in Workers |-> 0]
    /\ cpc = [c \in Closers |-> "idle"]
    /\ aborted = FALSE
    /\ bwStopped = FALSE
    /\ stopMu = NoOwner
    /\ mu = NoOwner
    /\ bwBuf = <<>>
    /\ bwErr = FALSE
    /\ stopChClosed = FALSE
    /\ bwWg = IF timerOn THEN 1 ELSE 0
    /\ tpc = IF timerOn THEN "select" ELSE "none"
    /\ dpc = [d \in Writers |-> "idle"]
    /\ dcur = [d \in Writers |-> 0]
    /\ dcalled = {}
    /\ dlog = <<>>
    /\ dlvl = {}
    /\ swMu = NoOwner
    /\ swpc = [d \in Writers |-> "idle"]
    /\ swcur = [d \in Writers |-> 0]
    /\ swn = [d \in Writers |-> 0]
    /\ swCalled = {}
    /\ swOut = <<>>
    /\ swLog = <<>>
    /\ mlpc = [p \in Producers |-> 0]
    /\ mlop = [p \in Producers |-> 0]
    /\ mlErrs = [p \in Producers |-> <<>>]
    /\ mlCallLog = <<>>
    /\ mlEvents = [i \in Loggers |-> [c \in MultiCalls |-> <<>>]]
    /\ mlRets = [c \in MultiCalls |-> <<>>]
    /\ sinkOut = <<>>
    /\ sinkFailed = FALSE
    /\ enqOrder = <<>>
    /\ fmtOrder = <<>>
    /\ wrOrder = <<>>
    /\ fmtErrs = {}
    /\ errHandled = <<>>
    /\ callLvl = <<>>
    /\ dropped = {}
    /\ panicked = {}
    /\ closeReturned = {}
    /\ chanCloses = 0
    /\ wgWaits = 0
    /\ stopCalls = 0
    /\ stopChCloses = 0
    /\ finalFlushes = 0
    /\ kvOpts = DefaultKvOpts
    /\ KVIdle

MLNext ==
    \E p \in Producers :
        \/ \E lvl \in MethodLevelsAt(Len(mlCallLog) + 1) :
               MultiCall(p, "log", lvl)
        \/ MultiCall(p, "close", LevelNone)
        \/ MultiForwardNext(p)
        \/ \E err \in BOOLEAN : MultiCloseNext(p, err)

MLSpec == MLInit /\ [][MLNext]_vars

\* ------------------------------------ building the record of a log call
\* pushLog / SyncLogger.log up to the hand-off, on an open logger: the level
\* gate, then WithDefaultKeyValues; the result is what is sent to the queue
BuildRecord(lvl, keyValues) ==
    /\ kvCall' = [called |-> TRUE, lvl |-> lvl, keyValues |-> keyValues]
    /\ kvRet' = IF ~BetweenMinMax(lvl)
                THEN [handed |-> FALSE, panicked |-> FALSE, keyVals |-> <<>>]
                ELSE WithDefaultKeyValues(kvOpts, lvl, keyValues)
    /\ UNCHANGED <<cfgVars, logVars, procVars, bwVars, directVars, swVars,
                   mlVars, histVars, kvOpts>>

KVInit ==
    /\ chanSize = 0
    /\ workersNo = 0
    /\ writerKind = "plain"
    /\ bufSize = BufSize
    /\ flushInterval = 0
    /\ timerOn = FALSE
    /\ minLevel \in {LevelNone, LevelWarning}
    /\ maxLevel = LevelCritical
    /\ entriesChan = <<>>
    /\ chanClosed = FALSE
    /\ closed = FALSE
    /\ closeMu = NoOwner
    /\ wgCount = 0
    /\ ppc = [p \in Producers |-> "idle"]
    /\ prec = [p \in Producers |-> 0]
    /\ nlogs = 0
    /\ wpc = [w \in Workers |-> "none"]
    /\ wcur = [w \in Workers |-> 0]
    /\ cpc = [c \in Closers |-> "idle"]
    /\ aborted = FALSE
    /\ bwStopped = FALSE
    /\ stopMu = NoOwner
    /\ mu = NoOwner
    /\ bwBuf = <<>>
    /\ bwErr = FALSE
    /\ stopChClosed = FALSE
    /\ bwWg = IF timerOn THEN 1 ELSE 0
    /\ tpc = IF timerOn THEN "select" ELSE "none"
    /\ dpc = [d \in Writers |-> "idle"]
    /\ dcur = [d \in Writers |-> 0]
    /\ dcalled = {}
    /\ dlog = <<>>
    /\ dlvl = {}
    /\ swMu = NoOwner
    /\ swpc = [d \in Writers |-> "idle"]
    /\ swcur = [d \in Writers |-> 0]
    /\ swn = [d \in Writers |-> 0]
    /\ swCalled = {}
    /\ swOut = <<>>
    /\ swLog = <<>>
    /\ mlpc = [p \in Producers |-> 0]
    /\ mlop = [p \in Producers |-> 0]
    /\ mlErrs = [p \in Producers |-> <<>>]
    /\ mlCallLog = <<>>
    /\ mlEvents = [i \in Loggers |-> [c \in MultiCalls |-> <<>>]]
    /\ mlRets = [c \in MultiCalls |-> <<>>]
    /\ sinkOut = <<>>
    /\ sinkFailed = FALSE
    /\ enqOrder = <<>>
    /\ fmtOrder = <<>>
    /\ wrOrder = <<>>
    /\ fmtErrs = {}
    /\ errHandled = <<>>
    /\ callLvl = <<>>
    /\ dropped = {}
    /\ panicked = {}
    /\ closeReturned = {}
    /\ chanCloses = 0
    /\ wgWaits = 0
    /\ stopCalls = 0
    /\ stopChCloses = 0
    /\ finalFlushes = 0
    /\ kvOpts \in KvOptsChoices
    /\ KVIdle

KVNext ==
    \E lvl \in MethodLevels, keyValues \in CallerKeyValues :
        BuildRecord(lvl, keyValues)

KVSpec == KVInit /\ [][KVNext]_vars

\* ------------------------- a SyncLogger writing to a BufferedWriter
\* NewSyncLogger(NewBufferedWriter(w)) with the default level range
SLInit ==
    /\ BWInit
    /\ bufSize = BufSize
    /\ flushInterval >= 0

SyncLoggerStep ==
    \E d \in Writers :
        \/ \E ch \in Chunks, lvl \in CallLevels : SyncLog(d, lvl, ch)
        \/ \E failAt \in FailChoices : BWWrite(d, failAt)

SyncCloserStep ==
    \E c \in Closers :
        \/ SyncClose(c)
        \/ StopBegin(c)
        \/ StopWait(c)
        \/ \E fail \in FlushFailChoices : StopFlush(c, fail)
        \/ StopUnlock(c)

SLNext == SyncLoggerStep \/ SyncCloserStep \/ TimerStep

SLSpec == SLInit /\ [][SLNext]_vars

\* ----------------------------------------------------------- properties
ActiveWorkers == {w \in Workers : w <= workersNo}
InFormatter(w) == wpc[w] \in {"fmt", "bwWrite"}
AllWorkersExited == \A w \in ActiveWorkers : wpc[w] = "done"
CloseHasReturned == closeReturned # {}

\* s is an order-preserving selection of the (distinct) elements of t
IsSubsequence(s, t) ==
    /\ Range(s) \subseteq Range(t)
    /\ \A i, j \in 1..Len(s) : i < j => Pos(t, s[i]) < Pos(t, s[j])

\* C1: with N >= 1 workers, once Close has returned every record whose send
\* completed has been passed to the Formatter exactly once (a send completes
\* before Close closes the channel or not at all, so these are the records
\* sent before Close was called and those sent while it waited for the
\* lock); at no time is a record formatted twice or held by two workers,
\* and only sent records are formatted.
C1_ExactlyOnce ==
    /\ \A r \in Records : Count(fmtOrder, r) <= 1
    /\ Range(fmtOrder) \subseteq Range(enqOrder)
    /\ \A w, v \in ActiveWorkers :
           (w # v /\ InFormatter(w) /\ InFormatter(v)) => wcur[w] # wcur[v]
    /\ (CloseHasReturned /\ workersNo >= 1) =>
           \A r \in Range(enqOrder) : Count(fmtOrder, r) = 1

\* two records sent before Close took the lock, two workers, Close has
\* returned
C1_Witness ==
    /\ CloseHasReturned
    /\ workersNo = 2
    /\ Len(enqOrder) = 2
    /\ Len(fmtOrder) = 2

\* C2: with one worker the Formatter is called on the records in the order
\* their sends completed, and the records reach the writer in that order,
\* for every channel capacity.
C2_FifoOneWorker ==
    workersNo = 1 =>
        /\ IsPrefix(fmtOrder, enqOrder)
        /\ IsSubsequence(wrOrder, enqOrder)
        /\ writerKind = "plain" => sinkOut = ConcatPayloads(wrOrder)

\* capacity 1, one worker, two records written
C2_Witness ==
    /\ workersNo = 1
    /\ chanSize = 1
    /\ Len(enqOrder) = 2
    /\ Len(wrOrder) = 2
    /\ CloseHasReturned

\* C3: a log call never sends on the closed channel (it enqueues before the
\* close or drops the record), so it never panics; stated for loggers with
\* workers and a buffered channel.
C3_NeverSendsOnClosed ==
    (workersNo >= 1 /\ chanSize >= 1) => (panicked = {} /\ ~aborted)

\* C4: once a Close call has returned no Formatter call, no ErrHandler call,
\* no sink write and no enqueue happens any more.
C4_QuietAfterClose ==
    [][CloseHasReturned =>
          UNCHANGED <<fmtOrder, errHandled, sinkOut, wrOrder, enqOrder,
                      entriesChan, bwBuf>>]_vars

\* a log call made after Close returned was dropped, and records had been
\* processed before
C4_Witness ==
    /\ CloseHasReturned
    /\ dropped # {}
    /\ Len(fmtOrder) >= 1
    /\ workersNo >= 1

\* C5: Close is idempotent: the channel is closed once, the workers are
\* joined once, Stop is called at most once, and a Close call that finds
\* the logger closed changes nothing but the lock it takes and releases.
C5_CloseIdempotent ==
    /\ [](chanCloses <= 1 /\ wgWaits <= 1 /\ stopCalls <= 1
          /\ stopChCloses <= 1 /\ finalFlushes <= 1)
    /\ [][\A c \in Closers :
             (cpc[c] = "idle" /\ closed /\ cpc'[c] # cpc[c]) =>
                 /\ cpc'[c] = "unlock"
                 /\ UNCHANGED <<closed, chanClosed, entriesChan, wgCount,
                                wpc, wcur, bwVars, sinkOut, fmtOrder,
                                chanCloses, wgWaits, stopCalls, stopChCloses,
                                finalFlushes>>]_vars

\* every caller has returned from Close on a logger with a BufferedWriter
C5_Witness ==
    /\ closeReturned = Closers
    /\ writerKind = "buffered"
    /\ chanCloses = 1
    /\ stopCalls = 1

C7_StopAfterWorkers ==
    (stopCalls > 0 \/ \E c \in Closers :
         cpc[c] \in {"stop", "stopWait", "flushIn", "stopUnlock"}) =>
        (AllWorkersExited /\ wgCount = 0 /\ mu.k # "worker")

\* the final flush is running on bytes the workers left in the accumulator
C7_Witness ==
    /\ \E c \in Closers : cpc[c] = "flushIn" /\ mu = CloserId(c)
    /\ workersNo >= 1
    /\ bwBuf # <<>>
    /\ wrOrder # <<>>

\* C8: with a BufferedWriter whose wrapped sink has not failed, when Close
\* has returned the accumulator is empty and the wrapped sink holds exactly
\* the bytes the writer accepted from the workers.
C8_FlushedOnClose ==
    (CloseHasReturned /\ writerKind = "buffered" /\ ~sinkFailed) =>
        (bwBuf = <<>> /\ sinkOut = ConcatPayloads(wrOrder))

\* flush interval 0 and a single byte written, less than the buffer size
C8_Witness ==
    /\ CloseHasReturned
    /\ writerKind = "buffered"
    /\ ~timerOn
    /\ ~sinkFailed
    /\ wrOrder = <<1>>
    /\ sinkOut = <<1>>

\* C9: the ErrHandler is called exactly once for a record whose Formatter
\* call returned an error and not at all for the others; the Formatter is
\* never called twice for a record; the failing worker goes back to its
\* receive and no producer is touched by the failure.
C9_ErrHandledOnce ==
    /\ [](\A r \in Records :
             /\ Count(fmtOrder, r) <= 1
             /\ Count(errHandled, r) = IF r \in fmtErrs THEN 1 ELSE 0)
    /\ [][\A w \in Workers :
             (InFormatter(w) /\ wcur[w] \in fmtErrs' \ fmtErrs) =>
                 /\ wpc'[w] = "recv"
                 /\ errHandled' = Append(errHandled, wcur[w])
                 /\ UNCHANGED <<fmtOrder, ppc, prec, aborted>>]_vars

\* the single worker handled a failed record and then wrote the next one
C9_Witness ==
    /\ workersNo = 1
    /\ fmtErrs = {1}
    /\ errHandled = <<1>>
    /\ fmtOrder = <<1, 2>>
    /\ wrOrder = <<2>>

\* C10: the channel never holds more records than its capacity, and a send
\* completes only into free room or into the hands of a receiving worker.
C10_BoundedQueue ==
    /\ [](Len(entriesChan) <= chanSize)
    /\ [][Len(enqOrder') > Len(enqOrder) =>
             \/ Len(entriesChan) < chanSize
             \/ /\ entriesChan' = entriesChan
                /\ \E w \in Workers : wpc[w] = "recv" /\ wpc'[w] = "fmt"]_vars

\* a producer is blocked in its send on a full channel of capacity 1
C10_Witness ==
    /\ chanSize = 1
    /\ Len(entriesChan) = 1
    /\ ~chanClosed
    /\ \E p \in Producers : ppc[p] = "send"

\* ------------------------------------- properties of the BufferedWriter
StopInProgress(c) == cpc[c] \in {"stop", "stopWait", "flushIn", "stopUnlock"}
StopReturned(c) == cpc[c] = "unlock"
StopHasReturned == \E c \in Closers : StopReturned(c)
WriteInProgress(d) == dpc[d] = "bwWrite"

RECURSIVE BytesOf(_)
BytesOf(chs) ==
    IF chs = {} THEN 0
    ELSE LET ch == CHOOSE x \in chs : TRUE
         IN Len(Payload(ch)) + BytesOf(chs \ {ch})

\* the operations that are inside their section of code guarded by bw.mu
InCritical ==
    {WriterId(d) : d \in {e \in Writers : dpc[e] = "bwWrite"}}
    \cup {WorkerId(w) : w \in {v \in Workers : wpc[v] = "bwWrite"}}
    \cup {CloserId(c) : c \in {e \in Closers : cpc[e] = "flushIn"}}
    \cup (IF tpc = "flushIn" THEN {TimerId} ELSE {})

\* a step of a goroutine that is inside Write or Stop, or of the timer
\* goroutine inside flush or at its exit
CallInProgressStep ==
    \/ \E d \in Writers, failAt \in FailChoices : BWWrite(d, failAt)
    \/ \E c \in Closers :
           \/ StopBegin(c)
           \/ StopWait(c)
           \/ \E fail \in FlushFailChoices : StopFlush(c, fail)
           \/ StopUnlock(c)
    \/ \E fail \in FlushFailChoices : TimerFlush(fail)
    \/ TimerExit

\* C11: Write, timer flush and Stop never block each other for ever: as
\* long as a Write call or a Stop call has not returned, one of the
\* goroutines inside Write, Stop or flush can take its next step.
C11_NoDeadlock ==
    ((\E d \in Writers : WriteInProgress(d))
     \/ (\E c \in Closers : StopInProgress(c))) => ENABLED CallInProgressStep

\* C12: with flush interval 0 and fewer bytes passed to Write than the
\* buffer size: before Stop is called the wrapped sink has received nothing
\* and every Write has returned its full length and no error; when Stop has
\* returned (its push not failing) the sink holds exactly the buffered bytes.
C12_BufferedUntilStop ==
    (~timerOn /\ BytesOf(dcalled) < bufSize) =>
        /\ finalFlushes = 0 => sinkOut = <<>>
        /\ \A i \in 1..Len(dlog) :
               ~dlog[i].stopped =>
                   (dlog[i].n = Len(Payload(dlog[i].chunk)) /\ ~dlog[i].err)
        /\ stopCalls = 0 =>
               (bwBuf = ConcatPayloads(wrOrder)
                /\ \A i \in 1..Len(dlog) : ~dlog[i].stopped)
        /\ (StopHasReturned /\ ~sinkFailed) =>
               (sinkOut = ConcatPayloads(wrOrder) /\ bwBuf = <<>>)

\* two Writes of one byte into a buffer of three, then Stop
C12_Witness ==
    /\ ~timerOn
    /\ BytesOf(dcalled) < bufSize
    /\ Len(dlog) = 2
    /\ Len(wrOrder) = 2
    /\ StopHasReturned
    /\ Len(sinkOut) = 2

\* C13: once a Stop call has returned, a Write returns (0, nil), and neither
\* the accumulator nor the wrapped sink changes any more.
C13_NoWriteAfterStop ==
    [][StopHasReturned =>
          /\ UNCHANGED <<bwBuf, bwErr, sinkOut, wrOrder>>
          /\ dlog' # dlog =>
                 /\ Len(dlog') = Len(dlog) + 1
                 /\ dlog'[Len(dlog')].n = 0
                 /\ ~dlog'[Len(dlog')].err]_vars

\* a Write was accepted before Stop, another one returned (0, nil) after it
C13_Witness ==
    /\ StopHasReturned
    /\ wrOrder # <<>>
    /\ \E i \in 1..Len(dlog) :
           dlog[i].stopped /\ dlog[i].n = 0 /\ ~dlog[i].err

\* C14: a Write returns an error exactly when a push it made to the wrapped
\* sink failed; a Write that finds the writer running and whose pushes
\* succeed returns its full length, whatever failed before it; the
\* bufio.Writer holds no error between operations.
C14_ErrorsNotSticky ==
    /\ (InCritical = {} => ~bwErr)
    /\ \A i \in 1..Len(dlog) :
           /\ dlog[i].err <=> dlog[i].failed
           /\ (~dlog[i].failed /\ ~dlog[i].stopped) =>
                  dlog[i].n = Len(Payload(dlog[i].chunk))

\* a Write failed, a later one was accepted in full
C14_Witness ==
    \E i, j \in 1..Len(dlog) :
        /\ i < j
        /\ dlog[i].failed /\ dlog[i].err
        /\ ~dlog[j].err /\ ~dlog[j].stopped
        /\ dlog[j].n = Len(Payload(dlog[j].chunk))

\* C15: over all Stop calls the stop channel is closed once and the final
\* flush runs once (exactly once when a Stop call has returned); a Stop
\* call that finds the writer stopped changes nothing but the lock it takes.
C15_StopIdempotent ==
    /\ [](/\ stopChCloses <= 1
          /\ finalFlushes <= 1
          /\ StopHasReturned => (stopChCloses = 1 /\ finalFlushes = 1))
    /\ [][\A c \in Closers :
             (cpc[c] = "stop" /\ bwStopped /\ cpc'[c] # cpc[c]) =>
                 /\ cpc'[c] = "stopUnlock"
                 /\ UNCHANGED <<bwStopped, mu, bwBuf, bwErr, stopChClosed,
                                bwWg, tpc, sinkOut, stopChCloses,
                                finalFlushes>>]_vars
    /\ [][StopHasReturned =>
             UNCHANGED <<bwStopped, bwBuf, sinkOut, stopChClosed,
                         stopChCloses, finalFlushes>>]_vars

\* every caller has returned from Stop, buffered bytes were pushed
C15_Witness ==
    /\ \A c \in Closers : StopReturned(c)
    /\ stopChCloses = 1
    /\ finalFlushes = 1
    /\ sinkOut # <<>>

\* C16: when the final flush is called the timer goroutine has exited, and
\* it does nothing afterwards.
C16_TimerExitedBeforeFinalFlush ==
    /\ [](finalFlushes > 0 => (tpc \in {"none", "done"} /\ mu # TimerId))
    /\ [][finalFlushes > 0 => tpc' = tpc]_vars

\* the final flush runs on a writer whose timer had flushed before
C16_Witness ==
    /\ timerOn
    /\ tpc = "done"
    /\ \E c \in Closers : cpc[c] = "flushIn"
    /\ sinkOut # <<>>
    /\ bwBuf # <<>>

\* C17: at most one of Write, timer flush and final flush is inside the
\* code guarded by bw.mu, and it is the holder of bw.mu.
C17_OneAtATime ==
    /\ Cardinality(InCritical) <= 1
    /\ InCritical = IF mu = NoOwner THEN {} ELSE {mu}

\* a Write is inside while the timer is alive and a Stop call is about to
\* take its lock
C17_Witness ==
    /\ \E d \in Writers : WriteInProgress(d)
    /\ tpc = "select"
    /\ bwBuf # <<>>
    /\ \E c \in Closers : cpc[c] = "stop"

\* C18: when the wrapped sink has not failed and Stop has returned, the
\* sink holds the payloads of the accepted Writes, each once and whole, in
\* the order they were accepted; every Write that found the writer running
\* was accepted.
C18_AllPayloadsWholeOnce ==
    (StopHasReturned /\ ~sinkFailed) =>
        /\ bwBuf = <<>>
        /\ sinkOut = ConcatPayloads(wrOrder)
        /\ \A ch \in Chunks : Count(wrOrder, ch) <= 1
        /\ \A i \in 1..Len(dlog) :
               ~dlog[i].stopped => Count(wrOrder, dlog[i].chunk) = 1

\* three Writes, the timer enabled, then Stop
C18_Witness ==
    /\ StopHasReturned
    /\ ~sinkFailed
    /\ timerOn
    /\ Len(wrOrder) = 3
    /\ \A i \in 1..Len(dlog) : ~dlog[i].stopped
    /\ Len(sinkOut) = 5

\* ----------------------------------------- properties of the syncWriter
SWInSink == {d \in Writers : swpc[d] = "inSink"}

\* the bytes the wrapped sink took in the completed calls, in their order
RECURSIVE SWDelivered(_)
SWDelivered(log) ==
    IF log = <<>> THEN <<>>
    ELSE SubSeq(Payload(Head(log).chunk), 1, Head(log).sinkN)
         \o SWDelivered(Tail(log))

\* the bytes the wrapped sink has taken in the calls it has not returned from
SWPartial ==
    IF SWInSink = {} THEN <<>>
    ELSE LET d == CHOOSE e \in SWInSink : TRUE
         IN SubSeq(Payload(swcur[d]), 1, swn[d])

\* C19: at most one Write call is inside the wrapped sink, and it holds
\* sw.mu; every Write returns the (n, err) the wrapped sink returned; the
\* sink holds the bytes of the calls one call after the other, never mixed,
\* each payload once and, when the sink reported no error, whole.
C19_SyncWriterSerializes ==
    /\ Cardinality(SWInSink) <= 1
    /\ \A d \in SWInSink : swMu = WriterId(d)
    /\ \A i \in 1..Len(swLog) :
           /\ swLog[i].n = swLog[i].sinkN
           /\ swLog[i].err = swLog[i].sinkErr
           /\ ~swLog[i].err => swLog[i].n = Len(Payload(swLog[i].chunk))
           /\ \A j \in 1..Len(swLog) :
                  swLog[i].chunk = swLog[j].chunk => i = j
    /\ swOut = SWDelivered(swLog) \o SWPartial

\* a call is inside the sink with part of a three-byte payload taken, after
\* one call that failed and one that succeeded
C19_Witness ==
    /\ \E d \in SWInSink : Len(Payload(swcur[d])) = 3 /\ swn[d] = 2
    /\ Len(swLog) = 2
    /\ \E i \in 1..Len(swLog) : swLog[i].err
    /\ \E i \in 1..Len(swLog) : ~swLog[i].err

\* C20: with one worker at most one Formatter call is in progress at any
\* time, whatever the producers do, and it is the single worker's.
C20_OneFormatterCall ==
    workersNo = 1 =>
        /\ Cardinality({w \in Workers : InFormatter(w)}) <= 1
        /\ \A w \in Workers : InFormatter(w) => w = 1

\* the single worker is inside the Formatter with the first record while a
\* second producer waits in its send on the unbuffered channel
C20_Witness ==
    /\ workersNo = 1
    /\ InFormatter(1)
    /\ wcur[1] = 1
    /\ chanSize = 0
    /\ \E p \in Producers : ppc[p] = "send" /\ prec[p] = 2

\* ------------------------------------------------ level gate, lifecycle
\* the records of the log calls made so far
Called == 1..nlogs
InSend(r) == \E p \in Producers : ppc[p] = "send" /\ prec[p] = r
OutsideRange(lvl) == lvl < minLevel \/ lvl > maxLevel

MultiCalled == 1..Len(mlCallLog)
MultiInProgress(c) == \E p \in Producers : mlop[p] = c
MultiReturned(c) == c \in MultiCalled /\ ~MultiInProgress(c)

\* the constituents that returned an error to Close call c, in loop order
RECURSIVE FailedLoggers(_, _)
FailedLoggers(c, i) ==
    IF i > NumLoggers THEN <<>>
    ELSE (IF mlEvents[i][c] # <<>> /\ mlEvents[i][c][1].err
          THEN <<i>> ELSE <<>>) \o FailedLoggers(c, i + 1)

\* C22: a Close call on the MultiLogger calls Close at most once on each
\* constituent, in the loop's order and also after a constituent returned an
\* error; when it has returned, every constituent was closed exactly once by
\* it, and it returned nil if no constituent failed and otherwise an error
\* holding every constituent's error; it makes no log call.
C22_MultiCloseAll ==
    \A c \in MultiCalled :
        mlCallLog[c].op = "close" =>
            /\ \A i \in Loggers :
                   /\ Len(mlEvents[i][c]) <= 1
                   /\ \A k \in 1..Len(mlEvents[i][c]) :
                          mlEvents[i][c][k].op = "close"
                   /\ (mlEvents[i][c] # <<>>) =>
                          \A j \in Loggers : j < i => mlEvents[j][c] # <<>>
            /\ IF MultiReturned(c)
               THEN /\ \A i \in Loggers : Len(mlEvents[i][c]) = 1
                    /\ Len(mlRets[c]) = 1
                    /\ mlRets[c][1].isNil <=> FailedLoggers(c, 1) = <<>>
                    /\ mlRets[c][1].errs = FailedLoggers(c, 1)
               ELSE mlRets[c] = <<>>

\* a Close call has returned the errors of both constituents, the first of
\* which failed before the second was closed
C22_Witness ==
    \E c \in MultiCalled :
        /\ mlCallLog[c].op = "close"
        /\ MultiReturned(c)
        /\ mlRets[c] = <<[isNil |-> FALSE, errs |-> <<1, 2>>]>>
        /\ \A i \in Loggers : Len(mlEvents[i][c]) = 1

\* C23: a log call on the MultiLogger reaches each constituent at most once,
\* in the constructor's order, as the same method with the same key-values;
\* when it has returned it has reached every constituent exactly once.
C23_MultiForwardsAll ==
    \A c \in MultiCalled :
        mlCallLog[c].op = "log" =>
            /\ mlCallLog[c].lvl \in MethodLevels
            /\ mlRets[c] = <<>>
            /\ \A i \in Loggers :
                   /\ Len(mlEvents[i][c]) <= 1
                   /\ \A k \in 1..Len(mlEvents[i][c]) :
                          /\ mlEvents[i][c][k].op = "log"
                          /\ mlEvents[i][c][k].lvl = mlCallLog[c].lvl
                          /\ mlEvents[i][c][k].kv = mlCallLog[c].kv
                   /\ (mlEvents[i][c] # <<>>) =>
                          \A j \in Loggers : j < i => mlEvents[j][c] # <<>>
            /\ MultiReturned(c) =>
                   \A i \in Loggers : Len(mlEvents[i][c]) = 1

\* two log calls made by two goroutines at the same time have both returned,
\* one at Debug and one at Warning
C23_Witness ==
    /\ Len(mlCallLog) >= 2
    /\ mlCallLog[1] = [op |-> "log", lvl |-> LevelDebug, kv |-> 1]
    /\ mlCallLog[2] = [op |-> "log", lvl |-> LevelWarning, kv |-> 2]
    /\ MultiReturned(1) /\ MultiReturned(2)
    /\ \A i \in Loggers : Len(mlEvents[i][1]) = 1 /\ Len(mlEvents[i][2]) = 1

\* ------------------------------------------ properties of the SyncLogger
ReturnedBeforeClose(e) == e.beforeStop

\* the chunks of the log calls that returned before Close was called, in the
\* order their Writes ran
BeforeCloseChunks ==
    LET sel == SelectSeq(dlog, ReturnedBeforeClose)
    IN [i \in 1..Len(sel) |-> sel[i].chunk]

\* C24: with a BufferedWriter whose wrapped sink has not failed, when
\* SyncLogger.Close has returned the wrapped sink holds all the bytes of the
\* log calls that had returned before Close was called (and each of those
\* calls had its whole entry taken by the writer).
C24_SyncCloseFlushes ==
    (StopHasReturned /\ ~sinkFailed) =>
        /\ IsPrefix(ConcatPayloads(BeforeCloseChunks), sinkOut)
        /\ \A i \in 1..Len(dlog) :
               dlog[i].beforeStop =>
                   /\ dlog[i].n = Len(Payload(dlog[i].chunk))
                   /\ ~dlog[i].err
                   /\ \E lvl \in CallLevels :
                          /\ <<dlog[i].chunk, lvl>> \in dlvl
                          /\ BetweenMinMax(lvl)

\* Close has returned after two log calls that returned before it was
\* called, and a third call was made after Close was called
C24_Witness ==
    /\ StopHasReturned
    /\ ~sinkFailed
    /\ Len(BeforeCloseChunks) = 2
    /\ Len(dlog) = 3
    /\ <<dlog[3].chunk, LevelWarning>> \in dlvl
    /\ Len(ConcatPayloads(BeforeCloseChunks)) >= 2

\* -------------------------------------- the lifecycle of the AsyncLogger
\* 0: running, 1: closing (a Close call is draining), 2: closed
LifecyclePhase ==
    IF ~closed THEN 0 ELSE IF ~CloseHasReturned THEN 1 ELSE 2

StartedWorkers == {w \in Workers : wpc[w] # "none"}

\* C25: the lifecycle only moves forward: the closed flag is set once, by
\* the step that closes the channel, and is never reset; the channel is
\* never reopened; the workers are the N started by the constructor, none
\* is started later and none that has exited runs again.
C25_LifecycleForward ==
    /\ [](/\ closed <=> chanClosed
          /\ Cardinality(StartedWorkers) = workersNo
          /\ CloseHasReturned => closed)
    /\ [][/\ closed => closed'
          /\ chanClosed => chanClosed'
          /\ chanCloses' # chanCloses =>
                 (~closed /\ closed' /\ chanCloses' = 1)
          /\ closed' # closed => chanCloses' # chanCloses
          /\ LifecyclePhase' >= LifecyclePhase
          /\ LifecyclePhase' <= LifecyclePhase + 1
          /\ StartedWorkers' = StartedWorkers
          /\ \A w \in Workers : wpc[w] = "done" => wpc'[w] = "done"]_vars

\* the logger is closed: both Close calls have returned, both workers have
\* exited after processing records, and a later log call was dropped
C25_Witness ==
    /\ LifecyclePhase = 2
    /\ closeReturned = Closers
    /\ workersNo = 2
    /\ \A w \in StartedWorkers : wpc[w] = "done"
    /\ Len(fmtOrder) >= 1
    /\ dropped # {}

\* ------------------------------- the stopped flag of the BufferedWriter
\* C26: the stopped flag is set by Stop, under stopMu, and never reset; a
\* Write that reads it as true returns (0, nil), leaves the accumulator and
\* the sink as they are, and its payload is never accepted.
C26_StoppedMonotonic ==
    /\ [](/\ bwStopped <=> stopChCloses >= 1
          /\ \A i \in 1..Len(dlog) :
                 dlog[i].stopped =>
                     /\ dlog[i].n = 0
                     /\ ~dlog[i].err
                     /\ ~dlog[i].failed
                     /\ Count(wrOrder, dlog[i].chunk) = 0)
    /\ [][/\ bwStopped => bwStopped'
          /\ bwStopped' # bwStopped =>
                 \E c \in Closers :
                     cpc[c] = "stop" /\ stopMu' = CloserId(c)
          /\ dlog' # dlog =>
                 /\ dlog'[Len(dlog')].stopped = bwStopped
                 /\ bwStopped =>
                        UNCHANGED <<bwBuf, bwErr, sinkOut, wrOrder>>]_vars

\* one Write was accepted, then two Writes read the flag as true, the second
\* of them after every Stop call had returned
C26_Witness ==
    /\ bwStopped
    /\ Len(dlog) = 3
    /\ ~dlog[1].stopped /\ dlog[1].n = Len(Payload(dlog[1].chunk))
    /\ dlog[2].stopped
    /\ dlog[3].stopped
    /\ \A c \in Closers : StopReturned(c)

\* --------------------------------------- the close lock of AsyncLogger
\* the positions of a Close call between closeMu.Lock() and the deferred
\* Unlock
InsideClose ==
    {"wait", "stop", "stopWait", "flushIn", "stopUnlock", "unlock"}

\* the first Close call has done all its work: the workers were joined and
\* the BufferedWriter, if any, was stopped and flushed
CloseCompleted ==
    /\ closed
    /\ wgWaits = 1
    /\ AllWorkersExited
    /\ workersNo >= 1 => entriesChan = <<>>
    /\ writerKind = "buffered" =>
           (bwStopped /\ finalFlushes = 1 /\ tpc # "select" /\ bwBuf = <<>>)

FlushRuns ==
    \/ tpc = "flushIn" /\ tpc' # "flushIn"
    \/ \E c \in Closers : cpc[c] = "flushIn" /\ cpc'[c] # "flushIn"

\* a step that completes a Write call
WriteReturns == Len(dlog') = Len(dlog) + 1

\* the chunks whose Write call has returned
Written == {dlog[i].chunk : i \in 1..Len(dlog)}

\* C30: a Write in which a push to the sink fails, and a flush whose push
\* fails, leave the accumulator empty and without a held error; the sink
\* grows only by bytes taken from the accumulator or from the payload of the
\* Write that runs, so the bytes of a returned Write that are no longer in
\* the accumulator never reach the sink later; the buffer size is unchanged
\* and bounds the accumulator.
C30_FailedPushDiscards ==
    /\ [][/\ (WriteReturns /\ dlog'[Len(dlog')].failed) =>
                 (bwBuf' = <<>> /\ ~bwErr')
          /\ (FlushRuns /\ bwBuf # <<>> /\ sinkOut' = sinkOut) =>
                 (bwBuf' = <<>> /\ ~bwErr' /\ sinkFailed')
          /\ IsPrefix(sinkOut, sinkOut')
          /\ \A ch \in Written :
                 /\ Count(sinkOut', ch) <=
                        Count(sinkOut, ch) + Count(bwBuf, ch)
                 /\ Count(bwBuf, ch) = 0 =>
                        (Count(sinkOut', ch) = Count(sinkOut, ch)
                         /\ Count(bwBuf', ch) = 0)
          /\ bufSize' = bufSize]_vars
    /\ [](Len(bwBuf) <= bufSize /\ ~bwErr)

\* the first Write was buffered, the second Write's push failed and cleared
\* the accumulator, the third was accepted; Stop has returned and the sink
\* holds the third payload only
C30_Witness ==
    /\ Len(dlog) = 3
    /\ ~dlog[1].err /\ dlog[1].n = Len(Payload(dlog[1].chunk))
    /\ dlog[2].failed
    /\ ~dlog[3].err /\ ~dlog[3].stopped
    /\ StopHasReturned
    /\ bwBuf = <<>>
    /\ sinkOut = Payload(dlog[3].chunk)

\* ---------------------------------------------- termination of Close
\* a Close call that has taken closeMu
CloseCalled(c) == cpc[c] # "idle"

\* Every Close call returns unless an unrecovered panic has ended the
\* process.
CloseReturnsOrProcessDies ==
    \A c \in Closers :
        (workersNo >= 1 /\ CloseCalled(c)) ~> (c \in closeReturned \/ aborted)

\* C27: with one worker or more, every Close call that was made returns.
C27_CloseReturns ==
    \A c \in Closers :
        (workersNo >= 1 /\ CloseCalled(c)) ~> (c \in closeReturned)

C33_SinkThenBufferIsAccepted ==
    /\ Len(bwBuf) <= bufSize
    /\ ~sinkFailed =>
           /\ sinkOut \o bwBuf = ConcatPayloads(wrOrder)
           /\ \A i \in 1..Len(dlog) :
                  ~dlog[i].stopped => Count(wrOrder, dlog[i].chunk) = 1

\* the payload of the third accepted Write is split: its first bytes went
\* to the sink when the accumulator filled up, its last bytes are buffered
C33_Witness ==
    /\ ~sinkFailed
    /\ Len(wrOrder) = 3
    /\ sinkOut # <<>>
    /\ bwBuf # <<>>
    /\ sinkOut[Len(sinkOut)] = wrOrder[3]
    /\ bwBuf[1] = wrOrder[3]
    /\ ~bwStopped

\* C34: when a Stop call has returned the accumulator is empty and holds no
\* error, whatever Writes ran beside Stop and whether or not a push failed;
\* and if no push has failed, the sink holds, of every Write that has
\* returned, exactly the bytes that Write reported as written.
C34_NothingLeftAfterStop ==
    StopHasReturned =>
        /\ bwBuf = <<>>
        /\ ~bwErr
        /\ mu = NoOwner \/ \E d \in Writers : mu = WriterId(d)
        /\ ~sinkFailed =>
               \A i \in 1..Len(dlog) :
                   Count(sinkOut, dlog[i].chunk) = dlog[i].n

\* Stop has returned; one Write had returned before Stop was called, one was
\* accepted after Stop was called, one was rejected; nothing has failed
C34_Witness ==
    /\ StopHasReturned
    /\ ~sinkFailed
    /\ Len(dlog) = 3
    /\ dlog[1].beforeStop /\ dlog[1].n > 0
    /\ ~dlog[2].beforeStop /\ ~dlog[2].stopped /\ dlog[2].n > 0
    /\ dlog[3].stopped
    /\ Len(sinkOut) = dlog[1].n + dlog[2].n

\* --------------------------------------- the timer of the BufferedWriter
\* a step in which a Write takes more bytes than the accumulator has room
\* for
WriteOverflows ==
    \E d \in Writers :
        /\ dpc[d] = "bwWrite"
        /\ dpc'[d] = "idle"
        /\ Len(bwBuf) + Len(Payload(dcur[d])) > bufSize

\* a step that runs the flush called by Stop
FinalFlushRuns ==
    \E c \in Closers : cpc[c] = "flushIn" /\ cpc'[c] = "stopUnlock"

TimerFlushRuns == tpc = "flushIn" /\ tpc' = "select"

\* C31: with the timer running and no Stop call, no byte of an accepted
\* Write stays in the accumulator for ever, whether or not Write is called
\* again; outside Write the sink grows only by the timer's flush, which
\* pushes the whole accumulator; and as long as no push has failed every
\* accepted byte is at the sink or in the accumulator (a failed push
\* discards the bytes it was given). So the accepted bytes reach the sink
\* through the timer's flush unless a push fails.
C31_TimerFlushDelivers ==
    /\ \A ch \in Chunks :
           (Count(wrOrder, ch) = 1) ~> (Count(bwBuf, ch) = 0)
    /\ [](~sinkFailed =>
             \A ch \in Chunks :
                 Count(wrOrder, ch) = 1 =>
                     Count(sinkOut, ch) + Count(bwBuf, ch)
                         = Len(Payload(ch)))
    /\ [][(sinkOut' # sinkOut /\ dlog' = dlog) =>
             /\ TimerFlushRuns
             /\ sinkOut' = sinkOut \o bwBuf
             /\ bwBuf' = <<>>]_vars

\* a single Write of one byte, less than the buffer size, was made and its
\* byte is at the sink
C31_Witness ==
    /\ flushInterval > 0
    /\ stopCalls = 0
    /\ Len(dlog) = 1
    /\ dcalled = {dlog[1].chunk}
    /\ sinkOut = Payload(dlog[1].chunk)
    /\ Len(sinkOut) < bufSize
    /\ bwBuf = <<>>
    /\ ~sinkFailed

\* ------------------------------------------ order with several workers
\* C35: with two workers or more the records can complete their write in
\* the opposite order to their sends (the witness below), while no record
\* is received, written or handed to ErrHandler twice, only sent records
\* are processed, and when Close has returned every sent record was
\* received once and was either written or handed to ErrHandler.
C35_ReorderedButOnce ==
    workersNo >= 2 =>
        /\ \A r \in Records :
               /\ Count(fmtOrder, r) <= 1
               /\ Count(wrOrder, r) + Count(errHandled, r) <= 1
        /\ Range(wrOrder) \cup Range(errHandled) \subseteq Range(fmtOrder)
        /\ Range(fmtOrder) \subseteq Range(enqOrder)
        /\ CloseHasReturned =>
               \A r \in Range(enqOrder) :
                   /\ Count(fmtOrder, r) = 1
                   /\ Count(wrOrder, r) + Count(errHandled, r) = 1

\* record 1 was sent before record 2, and the sink received record 2 before
\* record 1: one worker was still inside the Formatter with record 1 when
\* the other worker wrote record 2
C35_Witness ==
    /\ workersNo = 2
    /\ writerKind = "plain"
    /\ enqOrder = <<1, 2>>
    /\ wrOrder = <<2, 1>>
    /\ sinkOut = Payload(2) \o Payload(1)
    /\ ~IsSubsequence(wrOrder, enqOrder)
    /\ CloseHasReturned

\* C36: every record handed to the queue has an even number of entries.
\* Caller key-values of odd length are followed by exactly one "*NoValue*"
\* entry, caller key-values of even length are passed unchanged, and the
\* default entries come first, in this order: the time pair, the level
\* pair (for a level other than LevelNone), the source pair (when the
\* source key and the source are both non-empty), the additional pairs
\* (a Provider value replaced by what it returns).  The additional
\* key-values are of even length, as the claim says; the record is the one
\* an open logger sends for a call whose level passes the gate.
C36_Defaults ==
    LET additional == kvOpts.AdditionalKeyValues
        resolved == [i \in 1..Len(additional) |->
                        IF i % 2 = 0 /\ additional[i] = ProviderEntry
                        THEN ProviderResult ELSE additional[i]]
    IN  <<"date", TimeValue>>
        \o (IF kvCall.lvl = LevelNone
            THEN <<>> ELSE <<"lvl", LevelLabels(kvCall.lvl)>>)
        \o (IF kvOpts.SourceKey = "" \/ kvOpts.Source = ""
            THEN <<>> ELSE <<kvOpts.SourceKey, kvOpts.Source>>)
        \o resolved
C36_RecordIsEvenAndOrdered ==
    (kvCall.called /\ BetweenMinMax(kvCall.lvl)
        /\ Len(kvOpts.AdditionalKeyValues) % 2 = 0) =>
        LET out == kvRet.keyVals
            in == kvCall.keyValues
            nd == Len(C36_Defaults)
        IN  /\ kvRet.handed /\ ~kvRet.panicked
            /\ Len(out) % 2 = 0
            /\ Len(C36_Defaults) % 2 = 0
            /\ SubSeq(out, 1, nd) = C36_Defaults
            /\ SubSeq(out, nd + 1, nd + Len(in)) = in
            /\ Len(in) % 2 = 1 =>
                   /\ Len(out) = nd + Len(in) + 1
                   /\ out[Len(out)] = "*NoValue*"
            /\ Len(in) % 2 = 0 => Len(out) = nd + Len(in)
C36_Witness ==
    /\ kvCall.called /\ kvRet.handed
    /\ kvCall.lvl = LevelError
    /\ Len(kvCall.keyValues) = 3
    /\ kvOpts.SourceKey # "" /\ kvOpts.Source # ""
    /\ Len(kvOpts.AdditionalKeyValues) = 4
    /\ Len(kvRet.keyVals) = 14
    /\ kvRet.keyVals[14] = "*NoValue*"

====
